---- MODULE Spec2Model ----
(***************************************************************************)
(* A model of event-source-shim: the EventSource connection life cycle     *)
(* (createConnection and the XMLHttpRequest callbacks it installs), the    *)
(* deferred dispatch queue, the reconnection backoff, the buffer guard and *)
(* the incremental event stream parser.                                    *)
(*                                                                         *)
(* Text is a sequence of one-character strings; the control characters are *)
(* written "CR", "LF", "NUL".  Numbers are exact rationals [n, d]; a       *)
(* denominator of 0 stands for the non-finite doubles (Infinity, NaN).     *)
(* The growth rates used are dyadic, so the double arithmetic of the       *)
(* program is exact on every value that is reached.                        *)
(***************************************************************************)
EXTENDS Integers, Sequences, FiniteSets, TLC

\* ------------------------------------------------------------------------
\* Bounds of the model
\* ------------------------------------------------------------------------
\* Requests created where queue is queueMicrotask
MaxRequests == 3
\* Requests created where queue is setImmediate or setTimeout
MaxTaskRequests == 2
\* Length of the text of one response
MaxText == 16
\* Lines of one response where responses arrive line by line
MaxLines == 4
\* Lines of one response where the fields of the lines are examined
MaxFieldLines == 3

\* ------------------------------------------------------------------------
\* Exact numbers
\* ------------------------------------------------------------------------
Abs(x) == IF x < 0 THEN -x ELSE x

RECURSIVE GCD(_, _)
GCD(a, b) == IF b = 0 THEN a ELSE GCD(b, a % b)

Rat(n, d) ==
    IF d = 0 THEN [n |-> IF n > 0 THEN 1 ELSE IF n < 0 THEN -1 ELSE 0, d |-> 0]
    ELSE LET g == GCD(Abs(n), Abs(d))
             s == IF d < 0 THEN -1 ELSE 1
         IN  [n |-> (s * n) \div g, d |-> (s * d) \div g]

Num(k) == [n |-> k, d |-> 1]
Infinity == [n |-> 1, d |-> 0]
NaN == [n |-> 0, d |-> 0]

IsFinite(x) == x.d # 0
RAdd(x, y) == Rat(x.n * y.d + y.n * x.d, x.d * y.d)
RSub(x, y) == Rat(x.n * y.d - y.n * x.d, x.d * y.d)
RMul(x, y) == Rat(x.n * y.n, x.d * y.d)
\* x <= y as the double comparison computes it (false when either is NaN)
RLeq(x, y) ==
    IF x = NaN \/ y = NaN THEN FALSE
    ELSE IF x.d = 0 /\ y.d = 0 THEN x.n <= y.n
    ELSE IF x.d = 0 THEN x.n < 0
    ELSE IF y.d = 0 THEN y.n > 0
    ELSE x.n * y.d <= y.n * x.d
RGt(x, y) ==
    IF x = NaN \/ y = NaN THEN FALSE
    ELSE ~RLeq(x, y)

RECURSIVE RPow(_, _)
RPow(x, k) == IF k = 0 THEN Num(1) ELSE RMul(x, RPow(x, k - 1))

\* ------------------------------------------------------------------------
\* Text
\* ------------------------------------------------------------------------
toLowerCaseChar(c) ==
    CASE c = "A" -> "a" [] c = "D" -> "d" [] c = "E" -> "e" [] c = "I" -> "i"
      [] c = "N" -> "n" [] c = "R" -> "r" [] c = "T" -> "t" [] c = "V" -> "v"
      [] c = "Y" -> "y" [] c = "M" -> "m" [] c = "S" -> "s" [] c = "X" -> "x"
      [] OTHER -> c

toLowerCase(s) == [i \in 1..Len(s) |-> toLowerCaseChar(s[i])]

startsWith(s, p) == Len(s) >= Len(p) /\ SubSeq(s, 1, Len(p)) = p

includes(s, c) == \E i \in 1..Len(s) : s[i] = c

\* String.prototype.indexOf: 0-based index of the first c, or -1
RECURSIVE indexOfFrom(_, _, _)
indexOfFrom(s, c, i) ==
    IF i > Len(s) THEN -1
    ELSE IF s[i] = c THEN i - 1
    ELSE indexOfFrom(s, c, i + 1)

indexOf(s, c) == indexOfFrom(s, c, 1)

\* String.prototype.slice(from) and slice(from, to) with 0-based offsets
sliceFrom(s, from) == SubSeq(s, from + 1, Len(s))
slice(s, from, to) == SubSeq(s, from + 1, to)

Digit == {"0", "1", "2", "3", "4", "5", "6", "7", "8", "9"}

digitValue(c) ==
    CASE c = "0" -> 0 [] c = "1" -> 1 [] c = "2" -> 2 [] c = "3" -> 3
      [] c = "4" -> 4 [] c = "5" -> 5 [] c = "6" -> 6 [] c = "7" -> 7
      [] c = "8" -> 8 [] c = "9" -> 9

\* DIGITS = /^[0-9]+$/u
DIGITS(s) == Len(s) >= 1 /\ \A i \in 1..Len(s) : s[i] \in Digit

\* parseInt(s, 10) of a text that passed DIGITS
RECURSIVE parseInt(_)
parseInt(s) ==
    IF s = <<>> THEN 0
    ELSE 10 * parseInt(SubSeq(s, 1, Len(s) - 1)) + digitValue(s[Len(s)])

TextEventStream ==
    <<"t", "e", "x", "t", "/", "e", "v", "e", "n", "t",
      "-", "s", "t", "r", "e", "a", "m">>

\* ------------------------------------------------------------------------
\* Inputs of the model
\* ------------------------------------------------------------------------
\* A line a server sends: a field name, then nothing (sep 0), a colon
\* (sep 1) or a colon and a space (sep 2), then a value, then LF
Line(name, sep, value) == [name |-> name, sep |-> sep, value |-> value]

Render(line) ==
    line.name \o (IF line.sep >= 1 THEN <<":">> ELSE <<>>)
              \o (IF line.sep = 2 THEN <<" ">> ELSE <<>>)
              \o line.value \o <<"LF">>

RECURSIVE RenderAll(_)
RenderAll(chunk) ==
    IF chunk = <<>> THEN <<>> ELSE Render(Head(chunk)) \o RenderAll(Tail(chunk))

FieldData == <<"d", "a", "t", "a">>
FieldId == <<"i", "d">>
FieldEvent == <<"e", "v", "e", "n", "t">>
FieldRetry == <<"r", "e", "t", "r", "y">>

\* "", "data:x", "data: y", "data", "id:1", "id:", "id:2<NUL>", "event:h",
\* "event:", ":c", "x:1", "retry:2"
LineBlank == Line(<<>>, 0, <<>>)
LineData == Line(FieldData, 1, <<"x">>)
LineDataSpace == Line(FieldData, 2, <<"y">>)
LineDataBare == Line(FieldData, 0, <<>>)
LineId == Line(FieldId, 1, <<"1">>)
LineIdEmpty == Line(FieldId, 1, <<>>)
LineIdNul == Line(FieldId, 1, <<"2", "NUL">>)
LineEvent == Line(FieldEvent, 1, <<"h">>)
LineEventEmpty == Line(FieldEvent, 1, <<>>)
LineComment == Line(<<>>, 1, <<"c">>)
LineUnknown == Line(<<"x">>, 1, <<"1">>)
LineRetry == Line(FieldRetry, 1, <<"2">>)

\* "data:  y", "data::", "DATA:x", "Event:h", "x", "retry: 30", "retry:",
\* "retry:2x"
LineDataSpaces == Line(FieldData, 2, <<" ", "y">>)
LineDataColon == Line(FieldData, 1, <<":">>)
LineDataUpper == Line(<<"D", "A", "T", "A">>, 1, <<"x">>)
LineEventMixed == Line(<<"E", "v", "e", "n", "t">>, 1, <<"h">>)
LineUnknownBare == Line(<<"x">>, 0, <<>>)
LineRetrySpace == Line(FieldRetry, 2, <<"3", "0">>)
LineRetryEmpty == Line(FieldRetry, 1, <<>>)
LineRetryBad == Line(FieldRetry, 1, <<"2", "x">>)

\* The lines of the responses in which the blocks are examined
BlockLines ==
    {LineBlank, LineData, LineDataSpace, LineDataBare, LineId, LineEvent,
     LineEventEmpty, LineComment, LineUnknown, LineRetry}

\* The lines of the responses in which the last event id is examined
IdLines == {LineBlank, LineData, LineId, LineIdEmpty, LineIdNul}

\* The lines of the responses in which the fields are examined
FieldLines ==
    {LineBlank, LineComment, LineDataBare, LineDataSpace, LineDataSpaces,
     LineDataColon, LineDataUpper, LineEventMixed, LineUnknown,
     LineUnknownBare, LineRetry, LineRetrySpace, LineRetryEmpty, LineRetryBad}

\* The ends of a line
Endings == {"CR", "LF", "CRLF"}

Terminator(end) ==
    CASE end = "CR" -> <<"CR">>
      [] end = "LF" -> <<"LF">>
      [] end = "CRLF" -> <<"CR", "LF">>

\* A line a server sends with the given end
RenderEnded(line, end) ==
    SubSeq(Render(line), 1, Len(Render(line)) - 1) \o Terminator(end)

\* The lines of the responses in which the ends of lines are examined
EndedLines == {LineBlank, LineData}

\* Chunks a server sends: "data:x\n\n", "id:1\n\n", "retry:2\n"
ChunkData == <<LineData, LineBlank>>
ChunkId == <<LineId, LineBlank>>
ChunkRetry == <<LineRetry>>
Chunks == {ChunkData, ChunkId, ChunkRetry}

\* A chunk with two blocks, "data:x\n\ndata\n\n", and the chunks of the
\* responses in which the order of the events is examined
ChunkTwo == <<LineData, LineBlank, LineDataBare, LineBlank>>
OrderChunks == {ChunkData, ChunkTwo}

\* Response status codes of a request that got a response
HttpStatuses == {200, 204, 500}

\* Values of the Content-Type response header; <<>> is a missing header
NoContentType == <<>>
ContentTypeSSE ==
    <<<<"T", "e", "x", "t", "/", "E", "V", "E", "N", "T",
        "-", "s", "t", "r", "e", "a", "m", ";", "x">>>>
ContentTypes ==
    {NoContentType, ContentTypeSSE,
     <<<<"t", "e", "x", "t", "/", "p", "l", "a", "i", "n">>>>}

\* Arguments given to the configuration setters
ReconnectionTimeInputs == {NaN, Num(0), Num(100)}
IncreasingRateInputs == {Infinity, Num(1), Num(2)}
MaxBufferSizeInputs == {NaN, Num(-1), Num(6)}

\* The maximum the consumer sets while responses arrive
BufferSizes == {Num(6)}

\* ------------------------------------------------------------------------
\* State
\* ------------------------------------------------------------------------
VARIABLES
    defaultReconnectionTime,         \* module variable
    reconnectionTimeIncreasingRate,  \* module variable
    maxBufferSize,                   \* module variable
    slots,       \* InternalSlot of the EventSource object
    reqs,        \* the XMLHttpRequest objects created so far, with the
                 \* variables their callbacks close over (first, state)
    queue,       \* functions handed to queue(), not yet run
    timers,      \* the setTimeout callbacks not yet fired, with their delays
    listeners,   \* number of registered "online" listeners
    onLine,      \* window.navigator.onLine
    queueIsMicrotask, \* which function the platform made queue be
    note,        \* the event the last step dispatched, the readyState its
                 \* handler saw and the request it came from; whether the
                 \* consumer called close() in that step; and the request
                 \* whose chunk arrived in it, with the length received so
                 \* far and the lines of the chunk; and the configuration
                 \* function called in it, with its argument and whether
                 \* it threw; whether the window's "online" event was
                 \* fired in it; and whether a request ended in it with
                 \* an id or data of a block not yet ended
    sched,       \* the delays scheduled since the last announceConnection
    closedByUser, \* the consumer has called close()
    created      \* the default reconnection time and the increasing rate
                 \* as they were when the EventSource was constructed

vars == <<defaultReconnectionTime, reconnectionTimeIncreasingRate,
          maxBufferSize, slots, reqs, queue, timers, listeners, onLine,
          queueIsMicrotask, note, sched, closedByUser, created>>

CONNECTING == "CONNECTING"
OPEN == "OPEN"
CLOSED == "CLOSED"
ReadyState == {CONNECTING, OPEN, CLOSED}

\* No EventSource has been constructed yet
NoSlots ==
    [readyState |-> "NONE", request |-> 0, reconnectionTime |-> Num(0),
     lastEventId |-> <<>>, additionalReconnectionTime |-> Num(0)]

Null == <<>>
Some(v) == <<v>>

ParsingState ==
    [origin |-> <<>>, data |-> <<>>, type |-> <<>>, lastEventId |-> Null,
     pos |-> 0]

Origin == <<"o">>

\* Whether the lines received since the last blank one have an id field
\* (without NUL) or a data field
Unfinished(block) ==
    [id |-> \E i \in 1..Len(block) :
                /\ block[i].name = <<"i", "d">>
                /\ ~includes(block[i].value, "NUL"),
     data |-> \E i \in 1..Len(block) : block[i].name = <<"d", "a", "t", "a">>]

NoEvent == [type |-> <<>>, data |-> <<>>, origin |-> <<>>, lastEventId |-> <<>>]
NoNote ==
    [kind |-> "none", readyState |-> "NONE", event |-> NoEvent, req |-> 0,
     close |-> FALSE, progress |-> 0, received |-> 0, fed |-> <<>>,
     setter |-> "none", arg |-> Num(0), threw |-> FALSE, online |-> FALSE,
     discarded |-> Unfinished(<<>>)]

\* A function handed to queue(): what it does, the event it closes over, and
\* the request whose callback (or whose loss) made it
Task(k, e, r) == [kind |-> k, event |-> e, req |-> r]

\* The part of the state the program's functions read and write
World ==
    [slots |-> slots, reqs |-> reqs, queue |-> queue, timers |-> timers,
     listeners |-> listeners, onLine |-> onLine, note |-> NoNote,
     sched |-> sched]

\* ------------------------------------------------------------------------
\* The program's functions, as functions of the world
\* ------------------------------------------------------------------------
\* createConnection that sets Last-Event-ID whatever the last event id is
createConnection_alwaysHeader(W) ==
    IF W.onLine = FALSE
    THEN [W EXCEPT !.listeners = @ + 1]
    ELSE LET request ==
                 [phase |-> "inflight", first |-> TRUE, status |-> 0,
                  responseText |-> <<>>, state |-> ParsingState,
                  block |-> <<>>, cut |-> FALSE,
                  lastEventIdHeader |-> Some(W.slots.lastEventId),
                  valid |-> "unknown", class |-> "none",
                  opens |-> 0, errs |-> 0, retries |-> 0]
         IN  [W EXCEPT !.reqs = Append(@, request),
                       !.slots.request = Len(W.reqs) + 1]

\* createConnection that starts every request from the default reconnection
\* time
createConnection_resetsTime(W) ==
    IF W.onLine = FALSE
    THEN [W EXCEPT !.listeners = @ + 1]
    ELSE LET request ==
                 [phase |-> "inflight", first |-> TRUE, status |-> 0,
                  responseText |-> <<>>, state |-> ParsingState,
                  block |-> <<>>, cut |-> FALSE,
                  lastEventIdHeader |->
                      IF W.slots.lastEventId # <<>>
                      THEN Some(W.slots.lastEventId) ELSE Null,
                  valid |-> "unknown", class |-> "none",
                  opens |-> 0, errs |-> 0, retries |-> 0]
         IN  [W EXCEPT !.reqs = Append(@, request),
                       !.slots.request = Len(W.reqs) + 1,
                       !.slots.reconnectionTime = defaultReconnectionTime]

\* createConnection without the test of navigator.onLine
createConnection_ignoresOffline(W) ==
    LET request ==
            [phase |-> "inflight", first |-> TRUE, status |-> 0,
             responseText |-> <<>>, state |-> ParsingState,
             block |-> <<>>, cut |-> FALSE,
             lastEventIdHeader |->
                 IF W.slots.lastEventId # <<>>
                 THEN Some(W.slots.lastEventId) ELSE Null,
             valid |-> "unknown", class |-> "none",
             opens |-> 0, errs |-> 0, retries |-> 0]
    IN  [W EXCEPT !.reqs = Append(@, request),
                  !.slots.request = Len(W.reqs) + 1]

\* The fields phase, status and responseText are the XMLHttpRequest's; first
\* and state are the variables of createConnection; the others record what
\* was sent, the lines received since the last blank one, whether the last
\* chunk ended between the CR and the LF of a line's end, how the first
\* chunk was judged, which way the request's end was taken, and the events
\* dispatched and timers set on its behalf.
createConnection(W) ==
    IF W.onLine = FALSE
    THEN [W EXCEPT !.listeners = @ + 1]
    ELSE LET request ==
                 [phase |-> "inflight", first |-> TRUE, status |-> 0,
                  responseText |-> <<>>, state |-> ParsingState,
                  block |-> <<>>, cut |-> FALSE,
                  lastEventIdHeader |->
                      IF W.slots.lastEventId # <<>>
                      THEN Some(W.slots.lastEventId) ELSE Null,
                  valid |-> "unknown", class |-> "none",
                  opens |-> 0, errs |-> 0, retries |-> 0]
         IN  [W EXCEPT !.reqs = Append(@, request),
                       !.slots.request = Len(W.reqs) + 1]

\* request.onabort that puts the connection back to CONNECTING
onabort_connecting(W, r) ==
    IF W.slots.readyState # CLOSED
    THEN createConnection([W EXCEPT !.slots.request = 0,
                                    !.slots.readyState = CONNECTING,
                                    !.reqs[r].class = "restart"])
    ELSE W

\* request.onabort
onabort(W, r) ==
    IF W.slots.readyState # CLOSED
    THEN createConnection([W EXCEPT !.slots.request = 0,
                                    !.reqs[r].class = "restart"])
    ELSE W

\* XMLHttpRequest.abort(): a request in flight ends and its abort event is
\* fired synchronously; an ended request is left alone.
xhrAbort(W, r, how) ==
    IF W.reqs[r].phase = "inflight"
    THEN onabort([W EXCEPT !.reqs[r].phase = how,
                           !.reqs[r].status = 0,
                           !.reqs[r].responseText = <<>>,
                           !.note.discarded = Unfinished(W.reqs[r].block),
                           !.reqs[r].block = <<>>,
                           !.reqs[r].state = ParsingState], r)
    ELSE W

\* close() without the abort of the request
close_keepsRequest(W) ==
    [W EXCEPT !.slots.readyState = CLOSED, !.slots.request = 0]

close(W) ==
    LET request == W.slots.request
        W1 == [W EXCEPT !.slots.readyState = CLOSED, !.slots.request = 0]
    IN  IF request # 0 THEN xhrAbort(W1, request, "cancelled") ELSE W1

\* announceConnection that leaves the additional reconnection time alone
announceConnection_keepsTime(W, r) ==
    [W EXCEPT !.queue = Append(@, Task("announce", NoEvent, r)),
              !.sched = <<>>]

announceConnection(W, r) ==
    [W EXCEPT !.queue = Append(@, Task("announce", NoEvent, r)),
              !.slots.additionalReconnectionTime = Num(0),
              !.sched = <<>>]

\* reestablishConnection that forgets the time accumulated so far
reestablishConnection_forgetful(W, r) ==
    LET rt == W.slots.reconnectionTime
        add == W.slots.additionalReconnectionTime
    IN  [W EXCEPT !.queue = Append(@, Task("reestablish", NoEvent, r)),
                  !.timers = Append(@, [delay |-> RAdd(rt, add), req |-> r]),
                  !.slots.additionalReconnectionTime =
                      RSub(RMul(reconnectionTimeIncreasingRate, rt), rt),
                  !.reqs[r].retries = @ + 1,
                  !.sched = Append(@, [delay |-> RAdd(rt, add), base |-> rt,
                                       rate |-> reconnectionTimeIncreasingRate])]

\* reestablishConnection that takes the default reconnection time as it is
\* at the loss
reestablishConnection_liveDefault(W, r) ==
    LET rt == defaultReconnectionTime
        add == W.slots.additionalReconnectionTime
    IN  [W EXCEPT !.queue = Append(@, Task("reestablish", NoEvent, r)),
                  !.timers = Append(@, [delay |-> RAdd(rt, add), req |-> r]),
                  !.slots.additionalReconnectionTime =
                      RSub(RMul(reconnectionTimeIncreasingRate, RAdd(rt, add)),
                           rt),
                  !.reqs[r].retries = @ + 1,
                  !.sched = Append(@, [delay |-> RAdd(rt, add), base |-> rt,
                                       rate |-> reconnectionTimeIncreasingRate])]

\* reestablishConnection that multiplies by 1.5 whatever the rate is
reestablishConnection_fixedRate(W, r) ==
    LET rt == W.slots.reconnectionTime
        add == W.slots.additionalReconnectionTime
    IN  [W EXCEPT !.queue = Append(@, Task("reestablish", NoEvent, r)),
                  !.timers = Append(@, [delay |-> RAdd(rt, add), req |-> r]),
                  !.slots.additionalReconnectionTime =
                      RSub(RMul(Rat(3, 2), RAdd(rt, add)), rt),
                  !.reqs[r].retries = @ + 1,
                  !.sched = Append(@, [delay |-> RAdd(rt, add), base |-> rt,
                                       rate |-> reconnectionTimeIncreasingRate])]

reestablishConnection(W, r) ==
    LET rt == W.slots.reconnectionTime
        add == W.slots.additionalReconnectionTime
    IN  [W EXCEPT !.queue = Append(@, Task("reestablish", NoEvent, r)),
                  !.timers = Append(@, [delay |-> RAdd(rt, add), req |-> r]),
                  !.slots.additionalReconnectionTime =
                      RSub(RMul(reconnectionTimeIncreasingRate, RAdd(rt, add)),
                           rt),
                  !.reqs[r].retries = @ + 1,
                  !.sched = Append(@, [delay |-> RAdd(rt, add), base |-> rt,
                                       rate |-> reconnectionTimeIncreasingRate])]

failConnection(W, r) ==
    [W EXCEPT !.queue = Append(@, Task("fail", NoEvent, r))]

\* ------------------------------------------------------------------------
\* The event stream parser
\* ------------------------------------------------------------------------
\* First index at or after i (1-based) of a CR or LF in buffer, or 0
RECURSIVE findTerminator(_, _)
findTerminator(buffer, i) ==
    IF i > Len(buffer) THEN 0
    ELSE IF buffer[i] \in {"CR", "LF"} THEN i
    ELSE findTerminator(buffer, i + 1)

\* LINE = /([^\r\n]*)(?:\r\n|[\r\n])/gu, LINE.exec(buffer) with LINE.lastIndex
\* set to lastIndex: the match starts at lastIndex (the line part may be
\* empty) and exists iff a terminator follows.
LINE(buffer, lastIndex) ==
    LET j == findTerminator(buffer, lastIndex + 1)
    IN  IF j = 0
        THEN [found |-> FALSE, line |-> <<>>, lastIndex |-> 0]
        ELSE [found |-> TRUE,
              line |-> SubSeq(buffer, lastIndex + 1, j - 1),
              lastIndex |->
                  IF buffer[j] = "CR" /\ j < Len(buffer) /\ buffer[j + 1] = "LF"
                  THEN j + 1 ELSE j]

\* processField that compares the field name as it is written
processField_caseSensitive(W, r, fieldName, fieldValue) ==
    LET name == fieldName
    IN  IF name = <<"e", "v", "e", "n", "t">>
        THEN [W EXCEPT !.reqs[r].state.type = fieldValue]
        ELSE IF name = <<"d", "a", "t", "a">>
        THEN [W EXCEPT !.reqs[r].state.data = (@ \o fieldValue) \o <<"LF">>]
        ELSE IF name = <<"i", "d">>
        THEN IF ~includes(fieldValue, "NUL")
             THEN [W EXCEPT !.reqs[r].state.lastEventId = Some(fieldValue)]
             ELSE W
        ELSE IF name = <<"r", "e", "t", "r", "y">>
        THEN IF DIGITS(fieldValue)
             THEN [W EXCEPT !.slots.reconnectionTime = Num(parseInt(fieldValue))]
             ELSE W
        ELSE W

\* The longest prefix of s made of digits
RECURSIVE leadingDigits(_)
leadingDigits(s) ==
    IF s = <<>> \/ s[1] \notin Digit THEN <<>>
    ELSE <<s[1]>> \o leadingDigits(Tail(s))

\* processField that hands the retry value to parseInt untested
processField_untestedRetry(W, r, fieldName, fieldValue) ==
    LET name == toLowerCase(fieldName)
    IN  IF name = <<"e", "v", "e", "n", "t">>
        THEN [W EXCEPT !.reqs[r].state.type = fieldValue]
        ELSE IF name = <<"d", "a", "t", "a">>
        THEN [W EXCEPT !.reqs[r].state.data = (@ \o fieldValue) \o <<"LF">>]
        ELSE IF name = <<"i", "d">>
        THEN IF ~includes(fieldValue, "NUL")
             THEN [W EXCEPT !.reqs[r].state.lastEventId = Some(fieldValue)]
             ELSE W
        ELSE IF name = <<"r", "e", "t", "r", "y">>
        THEN [W EXCEPT !.slots.reconnectionTime =
                           IF leadingDigits(fieldValue) = <<>> THEN NaN
                           ELSE Num(parseInt(leadingDigits(fieldValue)))]
        ELSE W

\* processField that takes an id with a NUL character
processField_acceptsNul(W, r, fieldName, fieldValue) ==
    LET name == toLowerCase(fieldName)
    IN  IF name = <<"e", "v", "e", "n", "t">>
        THEN [W EXCEPT !.reqs[r].state.type = fieldValue]
        ELSE IF name = <<"d", "a", "t", "a">>
        THEN [W EXCEPT !.reqs[r].state.data = (@ \o fieldValue) \o <<"LF">>]
        ELSE IF name = <<"i", "d">>
        THEN [W EXCEPT !.reqs[r].state.lastEventId = Some(fieldValue)]
        ELSE IF name = <<"r", "e", "t", "r", "y">>
        THEN IF DIGITS(fieldValue)
             THEN [W EXCEPT !.slots.reconnectionTime = Num(parseInt(fieldValue))]
             ELSE W
        ELSE W

\* processField that appends the data value without the LF
processField_noSeparator(W, r, fieldName, fieldValue) ==
    LET name == toLowerCase(fieldName)
    IN  IF name = <<"e", "v", "e", "n", "t">>
        THEN [W EXCEPT !.reqs[r].state.type = fieldValue]
        ELSE IF name = <<"d", "a", "t", "a">>
        THEN [W EXCEPT !.reqs[r].state.data =
                           IF @ = <<>> THEN fieldValue \o <<"LF">>
                           ELSE SubSeq(@, 1, Len(@) - 1) \o fieldValue
                                    \o <<"LF">>]
        ELSE IF name = <<"i", "d">>
        THEN IF ~includes(fieldValue, "NUL")
             THEN [W EXCEPT !.reqs[r].state.lastEventId = Some(fieldValue)]
             ELSE W
        ELSE IF name = <<"r", "e", "t", "r", "y">>
        THEN IF DIGITS(fieldValue)
             THEN [W EXCEPT !.slots.reconnectionTime = Num(parseInt(fieldValue))]
             ELSE W
        ELSE W

\* processField that makes an id the last event id of the connection at once
processField_commitsId(W, r, fieldName, fieldValue) ==
    LET name == toLowerCase(fieldName)
    IN  IF name = <<"e", "v", "e", "n", "t">>
        THEN [W EXCEPT !.reqs[r].state.type = fieldValue]
        ELSE IF name = <<"d", "a", "t", "a">>
        THEN [W EXCEPT !.reqs[r].state.data = (@ \o fieldValue) \o <<"LF">>]
        ELSE IF name = <<"i", "d">>
        THEN IF ~includes(fieldValue, "NUL")
             THEN [W EXCEPT !.reqs[r].state.lastEventId = Some(fieldValue),
                            !.slots.lastEventId = fieldValue]
             ELSE W
        ELSE IF name = <<"r", "e", "t", "r", "y">>
        THEN IF DIGITS(fieldValue)
             THEN [W EXCEPT !.slots.reconnectionTime = Num(parseInt(fieldValue))]
             ELSE W
        ELSE W

processField(W, r, fieldName, fieldValue) ==
    LET name == toLowerCase(fieldName)
    IN  IF name = <<"e", "v", "e", "n", "t">>
        THEN [W EXCEPT !.reqs[r].state.type = fieldValue]
        ELSE IF name = <<"d", "a", "t", "a">>
        THEN [W EXCEPT !.reqs[r].state.data = (@ \o fieldValue) \o <<"LF">>]
        ELSE IF name = <<"i", "d">>
        THEN IF ~includes(fieldValue, "NUL")
             THEN [W EXCEPT !.reqs[r].state.lastEventId = Some(fieldValue)]
             ELSE W
        ELSE IF name = <<"r", "e", "t", "r", "y">>
        THEN IF DIGITS(fieldValue)
             THEN [W EXCEPT !.slots.reconnectionTime = Num(parseInt(fieldValue))]
             ELSE W
        ELSE W

createMessageEvent(type, data, origin, lastEventId) ==
    [type |-> type, data |-> data, origin |-> origin,
     lastEventId |-> lastEventId]

\* dispatchMessage that tests the data before it commits the id
dispatchMessage_dataFirst(W, r) ==
    LET state == W.reqs[r].state
        data == state.data
        type == state.type
        lastEventId == state.lastEventId
        W1 == [W EXCEPT !.reqs[r].state.data = <<>>,
                        !.reqs[r].state.type = <<>>]
        W2 == IF lastEventId # Null
              THEN [W1 EXCEPT !.slots.lastEventId = lastEventId[1]]
              ELSE W1
    IN  IF data = <<>>
        THEN W1
        ELSE LET event ==
                     createMessageEvent(
                         IF type # <<>> THEN type
                         ELSE <<"m", "e", "s", "s", "a", "g", "e">>,
                         slice(data, 0, Len(data) - 1),
                         state.origin,
                         W2.slots.lastEventId)
             IN  [W2 EXCEPT !.queue = Append(@, Task("message", event, r))]

\* dispatchMessage that commits a non-empty id only
dispatchMessage_nonEmptyOnly(W, r) ==
    LET state == W.reqs[r].state
        data == state.data
        type == state.type
        lastEventId == state.lastEventId
        W1 == [W EXCEPT !.reqs[r].state.data = <<>>,
                        !.reqs[r].state.type = <<>>]
        W2 == IF lastEventId # Null /\ lastEventId[1] # <<>>
              THEN [W1 EXCEPT !.slots.lastEventId = lastEventId[1]]
              ELSE W1
    IN  IF data = <<>>
        THEN W2
        ELSE LET event ==
                     createMessageEvent(
                         IF type # <<>> THEN type
                         ELSE <<"m", "e", "s", "s", "a", "g", "e">>,
                         slice(data, 0, Len(data) - 1),
                         state.origin,
                         W2.slots.lastEventId)
             IN  [W2 EXCEPT !.queue = Append(@, Task("message", event, r))]

\* dispatchMessage that gives the event the id committed before its block
dispatchMessage_staleId(W, r) ==
    LET state == W.reqs[r].state
        data == state.data
        type == state.type
        lastEventId == state.lastEventId
        W1 == [W EXCEPT !.reqs[r].state.data = <<>>,
                        !.reqs[r].state.type = <<>>]
        W2 == IF lastEventId # Null
              THEN [W1 EXCEPT !.slots.lastEventId = lastEventId[1]]
              ELSE W1
    IN  IF data = <<>>
        THEN W2
        ELSE LET event ==
                     createMessageEvent(
                         IF type # <<>> THEN type
                         ELSE <<"m", "e", "s", "s", "a", "g", "e">>,
                         slice(data, 0, Len(data) - 1),
                         state.origin,
                         W.slots.lastEventId)
             IN  [W2 EXCEPT !.queue = Append(@, Task("message", event, r))]

\* dispatchMessage that emits nothing for an empty data value
dispatchMessage_skipsEmptyData(W, r) ==
    LET state == W.reqs[r].state
        data == state.data
        type == state.type
        lastEventId == state.lastEventId
        W1 == [W EXCEPT !.reqs[r].state.data = <<>>,
                        !.reqs[r].state.type = <<>>]
        W2 == IF lastEventId # Null
              THEN [W1 EXCEPT !.slots.lastEventId = lastEventId[1]]
              ELSE W1
    IN  IF data = <<>> \/ data = <<"LF">>
        THEN W2
        ELSE LET event ==
                     createMessageEvent(
                         IF type # <<>> THEN type
                         ELSE <<"m", "e", "s", "s", "a", "g", "e">>,
                         slice(data, 0, Len(data) - 1),
                         state.origin,
                         W2.slots.lastEventId)
             IN  [W2 EXCEPT !.queue = Append(@, Task("message", event, r))]

\* dispatchMessage that clears the type only when it emits
dispatchMessage_keepsType(W, r) ==
    LET state == W.reqs[r].state
        data == state.data
        type == state.type
        lastEventId == state.lastEventId
        W1 == [W EXCEPT !.reqs[r].state.data = <<>>,
                        !.reqs[r].state.type = <<>>]
        W2 == IF lastEventId # Null
              THEN [W1 EXCEPT !.slots.lastEventId = lastEventId[1]]
              ELSE W1
    IN  IF data = <<>>
        THEN [W2 EXCEPT !.reqs[r].state.type = type]
        ELSE LET event ==
                     createMessageEvent(
                         IF type # <<>> THEN type
                         ELSE <<"m", "e", "s", "s", "a", "g", "e">>,
                         slice(data, 0, Len(data) - 1),
                         state.origin,
                         W2.slots.lastEventId)
             IN  [W2 EXCEPT !.queue = Append(@, Task("message", event, r))]

\* dispatchMessage that dispatches the event itself, at once
dispatchMessage_synchronous(W, r) ==
    LET state == W.reqs[r].state
        data == state.data
        type == state.type
        lastEventId == state.lastEventId
        W1 == [W EXCEPT !.reqs[r].state.data = <<>>,
                        !.reqs[r].state.type = <<>>]
        W2 == IF lastEventId # Null
              THEN [W1 EXCEPT !.slots.lastEventId = lastEventId[1]]
              ELSE W1
    IN  IF data = <<>>
        THEN W2
        ELSE LET event ==
                     createMessageEvent(
                         IF type # <<>> THEN type
                         ELSE <<"m", "e", "s", "s", "a", "g", "e">>,
                         slice(data, 0, Len(data) - 1),
                         state.origin,
                         W2.slots.lastEventId)
             IN  [W2 EXCEPT !.note.kind = "message",
                            !.note.readyState = W.slots.readyState,
                            !.note.event = event,
                            !.note.req = r]

dispatchMessage(W, r) ==
    LET state == W.reqs[r].state
        data == state.data
        type == state.type
        lastEventId == state.lastEventId
        W1 == [W EXCEPT !.reqs[r].state.data = <<>>,
                        !.reqs[r].state.type = <<>>]
        W2 == IF lastEventId # Null
              THEN [W1 EXCEPT !.slots.lastEventId = lastEventId[1]]
              ELSE W1
    IN  IF data = <<>>
        THEN W2
        ELSE LET event ==
                     createMessageEvent(
                         IF type # <<>> THEN type
                         ELSE <<"m", "e", "s", "s", "a", "g", "e">>,
                         slice(data, 0, Len(data) - 1),
                         state.origin,
                         W2.slots.lastEventId)
             IN  [W2 EXCEPT !.queue = Append(@, Task("message", event, r))]

RECURSIVE parseStream(_, _, _)
parseStream(W, r, buffer) ==
    LET match == LINE(buffer, W.reqs[r].state.pos)
    IN  IF ~match.found
        THEN W
        ELSE LET W1 == [W EXCEPT !.reqs[r].state.pos = match.lastIndex]
                 line == match.line
                 colonPos == indexOf(line, ":")
                 W2 == IF line = <<>>
                       THEN dispatchMessage(W1, r)
                       ELSE IF colonPos = -1
                       THEN processField(W1, r, line, <<>>)
                       ELSE IF colonPos >= 1
                       THEN processField(
                                W1, r, slice(line, 0, colonPos),
                                sliceFrom(line,
                                    colonPos +
                                    (IF colonPos + 2 <= Len(line)
                                        /\ line[colonPos + 2] = " "
                                     THEN 2 ELSE 1)))
                       ELSE W1
             IN  parseStream(W2, r, buffer)

\* ------------------------------------------------------------------------
\* The callbacks createConnection installs on a request
\* ------------------------------------------------------------------------
\* The test of the first chunk
validResponse(status, contentType) ==
    /\ status = 200
    /\ contentType # NoContentType
    /\ startsWith(toLowerCase(contentType[1]), TextEventStream)

\* onprogress whose buffer test is "not shorter than" the maximum
onprogress_inclusive(W, r, contentType) ==
    LET request == W.reqs[r]
    IN  IF W.slots.readyState = CLOSED \/ request.status = 0
        THEN W
        ELSE IF request.first /\ ~validResponse(request.status, contentType)
        THEN failConnection([W EXCEPT !.reqs[r].first = FALSE,
                                      !.reqs[r].valid = "no",
                                      !.reqs[r].class = "fatal"], r)
        ELSE LET W1 == IF request.first
                       THEN announceConnection(
                                [W EXCEPT !.reqs[r].first = FALSE,
                                          !.reqs[r].valid = "yes",
                                          !.reqs[r].state.origin = Origin],
                                r)
                       ELSE W
                 W2 == parseStream(W1, r, request.responseText)
             IN  IF RLeq(maxBufferSize, Num(Len(request.responseText)))
                 THEN xhrAbort(W2, r, "aborted")
                 ELSE W2

\* onprogress that parses the text before it announces the connection
onprogress_parsesFirst(W, r, contentType) ==
    LET request == W.reqs[r]
    IN  IF W.slots.readyState = CLOSED \/ request.status = 0
        THEN W
        ELSE IF request.first /\ ~validResponse(request.status, contentType)
        THEN failConnection([W EXCEPT !.reqs[r].first = FALSE,
                                      !.reqs[r].valid = "no",
                                      !.reqs[r].class = "fatal"], r)
        ELSE LET W1 == IF request.first
                       THEN [W EXCEPT !.reqs[r].first = FALSE,
                                      !.reqs[r].valid = "yes",
                                      !.reqs[r].state.origin = Origin]
                       ELSE W
                 W2 == parseStream(W1, r, request.responseText)
                 W3 == IF request.first THEN announceConnection(W2, r) ELSE W2
             IN  IF RGt(Num(Len(request.responseText)), maxBufferSize)
                 THEN xhrAbort(W3, r, "aborted")
                 ELSE W3

\* onprogress that tests the length of the text before it parses it
onprogress_abortsFirst(W, r, contentType) ==
    LET request == W.reqs[r]
    IN  IF W.slots.readyState = CLOSED \/ request.status = 0
        THEN W
        ELSE IF request.first /\ ~validResponse(request.status, contentType)
        THEN failConnection([W EXCEPT !.reqs[r].first = FALSE,
                                      !.reqs[r].valid = "no",
                                      !.reqs[r].class = "fatal"], r)
        ELSE LET W1 == IF request.first
                       THEN announceConnection(
                                [W EXCEPT !.reqs[r].first = FALSE,
                                          !.reqs[r].valid = "yes",
                                          !.reqs[r].state.origin = Origin],
                                r)
                       ELSE W
             IN  IF RGt(Num(Len(request.responseText)), maxBufferSize)
                 THEN xhrAbort(W1, r, "aborted")
                 ELSE parseStream(W1, r, request.responseText)

onprogress(W, r, contentType) ==
    LET request == W.reqs[r]
    IN  IF W.slots.readyState = CLOSED \/ request.status = 0
        THEN W
        ELSE IF request.first /\ ~validResponse(request.status, contentType)
        THEN failConnection([W EXCEPT !.reqs[r].first = FALSE,
                                      !.reqs[r].valid = "no",
                                      !.reqs[r].class = "fatal"], r)
        ELSE LET W1 == IF request.first
                       THEN announceConnection(
                                [W EXCEPT !.reqs[r].first = FALSE,
                                          !.reqs[r].valid = "yes",
                                          !.reqs[r].state.origin = Origin],
                                r)
                       ELSE W
                 W2 == parseStream(W1, r, request.responseText)
             IN  IF RGt(Num(Len(request.responseText)), maxBufferSize)
                 THEN xhrAbort(W2, r, "aborted")
                 ELSE W2

\* onload without the test for 204
onload_only200(W, r) ==
    LET request == W.reqs[r]
    IN  IF W.slots.readyState = CLOSED \/ request.status = 0
        THEN W
        ELSE LET W1 == [W EXCEPT !.slots.request = 0]
             IN  IF request.status = 200
                 THEN reestablishConnection(
                          [W1 EXCEPT !.reqs[r].class = "loss"], r)
                 ELSE W1

\* onload without the test of the status 0
onload_ignoresStatus(W, r) ==
    LET request == W.reqs[r]
    IN  IF W.slots.readyState = CLOSED
        THEN W
        ELSE LET W1 == [W EXCEPT !.slots.request = 0]
                 W2 == IF request.status = 200
                       THEN reestablishConnection(
                                [W1 EXCEPT !.reqs[r].class = "loss"], r)
                       ELSE W1
             IN  IF request.status = 204 /\ request.first
                 THEN failConnection([W2 EXCEPT !.reqs[r].class = "fatal"], r)
                 ELSE W2

onload(W, r) ==
    LET request == W.reqs[r]
    IN  IF W.slots.readyState = CLOSED \/ request.status = 0
        THEN W
        ELSE LET W1 == [W EXCEPT !.slots.request = 0]
                 W2 == IF request.status = 200
                       THEN reestablishConnection(
                                [W1 EXCEPT !.reqs[r].class = "loss"], r)
                       ELSE W1
             IN  IF request.status = 204 /\ request.first
                 THEN failConnection([W2 EXCEPT !.reqs[r].class = "fatal"], r)
                 ELSE W2

\* onerror that starts the next request at once, as onabort does
onerror_restarts(W, r) ==
    IF W.slots.readyState # CLOSED
    THEN createConnection([W EXCEPT !.slots.request = 0,
                                    !.reqs[r].class = "loss"])
    ELSE W

onerror(W, r) ==
    IF W.slots.readyState # CLOSED
    THEN reestablishConnection([W EXCEPT !.slots.request = 0,
                                         !.reqs[r].class = "loss"], r)
    ELSE W

\* ------------------------------------------------------------------------
\* The functions handed to queue()
\* ------------------------------------------------------------------------
dispatchEvent(W, kind, event, r) ==
    [W EXCEPT !.note = [kind |-> kind, readyState |-> W.slots.readyState,
                        event |-> event, req |-> r, close |-> FALSE,
                        progress |-> 0, received |-> 0, fed |-> <<>>,
                        setter |-> "none", arg |-> Num(0), threw |-> FALSE,
                        online |-> FALSE,
                        discarded |-> Unfinished(<<>>)],
              !.reqs[r].opens = IF kind = "open" THEN @ + 1 ELSE @,
              !.reqs[r].errs = IF kind = "error" THEN @ + 1 ELSE @]

\* announceTask without the assignment of readyState
announceTask_keepsReadyState(W, r) ==
    IF W.slots.readyState # CLOSED
    THEN dispatchEvent(W, "open", NoEvent, r)
    ELSE W

\* announceTask without the readyState test
announceTask_unguarded(W, r) ==
    dispatchEvent([W EXCEPT !.slots.readyState = OPEN], "open", NoEvent, r)

announceTask(W, r) ==
    IF W.slots.readyState # CLOSED
    THEN dispatchEvent([W EXCEPT !.slots.readyState = OPEN], "open", NoEvent, r)
    ELSE W

\* reestablishTask without the assignment of readyState
reestablishTask_keepsReadyState(W, r) ==
    IF W.slots.readyState # CLOSED
    THEN dispatchEvent(W, "error", NoEvent, r)
    ELSE W

reestablishTask(W, r) ==
    IF W.slots.readyState # CLOSED
    THEN dispatchEvent([W EXCEPT !.slots.readyState = CONNECTING],
                       "error", NoEvent, r)
    ELSE W

\* reconnectTask without the readyState test
reconnectTask_unguarded(W) == createConnection(W)

reconnectTask(W) ==
    IF W.slots.readyState = CONNECTING THEN createConnection(W) ELSE W

failTask(W, r) ==
    IF W.slots.readyState # CLOSED
    THEN dispatchEvent(close(W), "error", NoEvent, r)
    ELSE W

\* messageTask without the readyState test
messageTask_unguarded(W, event, r) == dispatchEvent(W, "message", event, r)

messageTask(W, event, r) ==
    IF W.slots.readyState # CLOSED
    THEN dispatchEvent(W, "message", event, r)
    ELSE W

runTask(W, task) ==
    CASE task.kind = "announce" -> announceTask(W, task.req)
      [] task.kind = "reestablish" -> reestablishTask(W, task.req)
      [] task.kind = "reconnect" -> reconnectTask(W)
      [] task.kind = "fail" -> failTask(W, task.req)
      [] task.kind = "message" -> messageTask(W, task.event, task.req)

\* ------------------------------------------------------------------------
\* The configuration setters
\* ------------------------------------------------------------------------
\* Each gives whether it threw and the value its module variable has after
\* the call
\* setDefaultReconnectionTime that takes 0
setDefaultReconnectionTime_acceptsZero(value) ==
    IF ~IsFinite(value) \/ (RLeq(value, Num(0)) /\ value # Num(0))
    THEN [threw |-> TRUE, value |-> defaultReconnectionTime]
    ELSE [threw |-> FALSE, value |-> value]

setDefaultReconnectionTime(value) ==
    IF ~IsFinite(value) \/ RLeq(value, Num(0))
    THEN [threw |-> TRUE, value |-> defaultReconnectionTime]
    ELSE [threw |-> FALSE, value |-> value]

setReconnectionTimeIncreasingRate(value) ==
    IF ~IsFinite(value) \/ RLeq(value, Num(1))
    THEN [threw |-> TRUE, value |-> reconnectionTimeIncreasingRate]
    ELSE [threw |-> FALSE, value |-> value]

setMaxBufferSize(value) ==
    IF ~IsFinite(value) \/ RLeq(value, Num(0))
    THEN [threw |-> TRUE, value |-> maxBufferSize]
    ELSE [threw |-> FALSE, value |-> value]

\* ------------------------------------------------------------------------
\* Steps
\* ------------------------------------------------------------------------
\* Where queue is queueMicrotask, the functions handed to it have all run
\* before the next callback of the transport, of a timer or of the window,
\* and before the consumer's next own turn.  Where it is setImmediate or
\* setTimeout, they are tasks like those and may run in between.
Idle == queueIsMicrotask => queue = <<>>

Created == slots.readyState # "NONE"

InFlight(r) == r \in 1..Len(reqs) /\ reqs[r].phase = "inflight"

Apply(W) ==
    /\ Len(W.reqs) <= (IF queueIsMicrotask THEN MaxRequests
                       ELSE MaxTaskRequests)
    /\ slots' = W.slots
    /\ reqs' = W.reqs
    /\ queue' = W.queue
    /\ timers' = W.timers
    /\ listeners' = W.listeners
    /\ onLine' = W.onLine
    /\ note' = W.note
    /\ sched' = W.sched

Config ==
    <<defaultReconnectionTime, reconnectionTimeIncreasingRate, maxBufferSize,
      queueIsMicrotask>>

\* internalSlots.init
init ==
    [readyState |-> CONNECTING, request |-> 0,
     reconnectionTime |-> defaultReconnectionTime,
     lastEventId |-> <<>>, additionalReconnectionTime |-> Num(0)]

\* new EventSource(url)
New ==
    /\ ~Created
    /\ Idle
    /\ Apply(createConnection([World EXCEPT !.slots = init]))
    /\ created' = [reconnectionTime |-> defaultReconnectionTime,
                   rate |-> reconnectionTimeIncreasingRate]
    /\ UNCHANGED <<Config, closedByUser>>

\* source.close(), called by the consumer in a turn of its own
Close ==
    /\ Created
    /\ Idle
    /\ Apply([close(World) EXCEPT !.note.close = TRUE,
                                  !.note.readyState = slots.readyState])
    /\ closedByUser' = TRUE
    /\ UNCHANGED <<Config, created>>

\* The oldest queued function runs.  If it dispatches an event, the
\* consumer's handler may call source.close() before it returns.
RunTask ==
    /\ queue # <<>>
    /\ \E handlerCloses \in BOOLEAN :
          LET W1 == runTask([World EXCEPT !.queue = Tail(queue)], Head(queue))
              W2 == IF handlerCloses
                    THEN [close(W1) EXCEPT !.note.close = TRUE]
                    ELSE W1
          IN  /\ handlerCloses => W1.note.kind # "none"
              /\ Apply(W2)
              /\ closedByUser' = (closedByUser \/ handlerCloses)
    /\ UNCHANGED <<Config, created>>

\* The lines received since the last blank one, after a chunk
RECURSIVE BlockAfter(_, _)
BlockAfter(block, chunk) ==
    IF chunk = <<>> THEN block
    ELSE IF Head(chunk) = LineBlank THEN BlockAfter(<<>>, Tail(chunk))
    ELSE BlockAfter(Append(block, Head(chunk)), Tail(chunk))

\* What the XMLHttpRequest r shows once a chunk of its response has arrived
Receive(W, r, chunk, status) ==
    [W EXCEPT !.reqs[r].status = status,
              !.reqs[r].responseText = @ \o RenderAll(chunk),
              !.reqs[r].block = BlockAfter(@, chunk),
              !.note.progress = r,
              !.note.received =
                  Len(W.reqs[r].responseText) + Len(RenderAll(chunk)),
              !.note.fed = chunk]

\* A chunk of the response of r arrives.  The status and the headers of a
\* response are fixed when its first chunk or its end arrives.
Progress(r, chunk, status, contentType) ==
    /\ Idle
    /\ InFlight(r)
    /\ reqs[r].status \in {0, status}
    /\ ~reqs[r].first => contentType = NoContentType
    /\ Len(reqs[r].responseText) + Len(RenderAll(chunk)) <= MaxText
    /\ Apply(onprogress(Receive(World, r, chunk, status), r, contentType))
    /\ UNCHANGED <<Config, closedByUser, created>>

\* One line of a valid response of r arrives, as a chunk of its own
ProgressLine(r, line) ==
    /\ Idle
    /\ InFlight(r)
    /\ reqs[r].status \in {0, 200}
    /\ Len(SelectSeq(reqs[r].responseText, LAMBDA c : c = "LF")) < MaxLines
    /\ Apply(onprogress(Receive(World, r, <<line>>, 200), r,
                        IF reqs[r].first THEN ContentTypeSSE
                        ELSE NoContentType))
    /\ UNCHANGED <<Config, closedByUser, created>>

\* One line of a valid response of r arrives, as a chunk of its own, in a
\* response of at most MaxFieldLines lines
ProgressField(r, line) ==
    /\ Idle
    /\ InFlight(r)
    /\ reqs[r].status \in {0, 200}
    /\ Len(SelectSeq(reqs[r].responseText, LAMBDA c : c = "LF"))
           < MaxFieldLines
    /\ Apply(onprogress(Receive(World, r, <<line>>, 200), r,
                        IF reqs[r].first THEN ContentTypeSSE
                        ELSE NoContentType))
    /\ UNCHANGED <<Config, closedByUser, created>>

\* The lines of a text: a CR, an LF or a CR and the LF after it ends one
NumLines(text) ==
    Cardinality({i \in 1..Len(text) :
                    \/ text[i] = "LF"
                    \/ /\ text[i] = "CR"
                       /\ (i = Len(text) \/ text[i + 1] # "LF")})

\* One line of a valid response of r arrives with the given end.  If the
\* chunk is cut, it ends after the CR of a CRLF and the LF is still to come.
ReceiveEnded(W, r, line, end, cut) ==
    LET text == RenderEnded(line, end)
        chunk == IF cut THEN SubSeq(text, 1, Len(text) - 1) ELSE text
    IN  [W EXCEPT !.reqs[r].status = 200,
                  !.reqs[r].responseText = @ \o chunk,
                  !.reqs[r].block = BlockAfter(@, <<line>>),
                  !.reqs[r].cut = cut,
                  !.note.progress = r,
                  !.note.received = Len(W.reqs[r].responseText) + Len(chunk),
                  !.note.fed = <<line>>]

ProgressEnded(r, line, end, cut) ==
    /\ Idle
    /\ InFlight(r)
    /\ reqs[r].status \in {0, 200}
    /\ ~reqs[r].cut
    /\ cut => end = "CRLF"
    /\ NumLines(reqs[r].responseText) < MaxLines
    /\ Apply(onprogress(ReceiveEnded(World, r, line, end, cut), r,
                        IF reqs[r].first THEN ContentTypeSSE
                        ELSE NoContentType))
    /\ UNCHANGED <<Config, closedByUser, created>>

\* The LF of a CRLF arrives, in the chunk after the one with the CR
ReceiveRest(W, r) ==
    [W EXCEPT !.reqs[r].responseText = @ \o <<"LF">>,
              !.reqs[r].cut = FALSE,
              !.note.progress = r,
              !.note.received = Len(W.reqs[r].responseText) + 1,
              !.note.fed = <<>>]

ProgressRest(r) ==
    /\ Idle
    /\ InFlight(r)
    /\ reqs[r].cut
    /\ Apply(onprogress(ReceiveRest(World, r), r, NoContentType))
    /\ UNCHANGED <<Config, closedByUser, created>>

\* The response of r ends
Load(r, status) ==
    /\ Idle
    /\ InFlight(r)
    /\ reqs[r].status \in {0, status}
    /\ Apply(onload(
           [World EXCEPT !.reqs[r].status = status,
                         !.reqs[r].phase = "done",
                         !.reqs[r].responseText = <<>>,
                         !.note.discarded = Unfinished(reqs[r].block),
                         !.reqs[r].block = <<>>,
                         !.reqs[r].state = ParsingState],
           r))
    /\ UNCHANGED <<Config, closedByUser, created>>

\* The request r fails at the network level
NetworkError(r) ==
    /\ Idle
    /\ InFlight(r)
    /\ Apply(onerror(
           [World EXCEPT !.reqs[r].status = 0,
                         !.reqs[r].phase = "done",
                         !.reqs[r].responseText = <<>>,
                         !.note.discarded = Unfinished(reqs[r].block),
                         !.reqs[r].block = <<>>,
                         !.reqs[r].state = ParsingState],
           r))
    /\ UNCHANGED <<Config, closedByUser, created>>

\* Callbacks of a request that was aborted, arriving late: an aborted
\* request reports status 0.
StaleProgress(r) ==
    /\ Idle
    /\ r \in 1..Len(reqs)
    /\ reqs[r].phase \in {"aborted", "cancelled"}
    /\ Apply(onprogress(World, r, NoContentType))
    /\ UNCHANGED <<Config, closedByUser, created>>

StaleLoad(r) ==
    /\ Idle
    /\ r \in 1..Len(reqs)
    /\ reqs[r].phase \in {"aborted", "cancelled"}
    /\ Apply(onload(World, r))
    /\ UNCHANGED <<Config, closedByUser, created>>

StaleError(r) ==
    /\ Idle
    /\ r \in 1..Len(reqs)
    /\ reqs[r].phase = "cancelled"
    /\ Apply(onerror(World, r))
    /\ UNCHANGED <<Config, closedByUser, created>>

\* The setTimeout callback of reestablishConnection
TimerFires(i) ==
    /\ Idle
    /\ i \in 1..Len(timers)
    /\ Apply([World EXCEPT !.timers = SubSeq(@, 1, i - 1)
                                       \o SubSeq(@, i + 1, Len(@)),
                           !.queue = Append(@, Task("reconnect", NoEvent,
                                                    timers[i].req))])
    /\ UNCHANGED <<Config, closedByUser, created>>

\* The "online" listener without removeEventListener
listener_staysRegistered(W) ==
    IF W.slots.readyState # CLOSED THEN createConnection(W) ELSE W

\* The "online" listener of createConnection
listener(W) ==
    LET W1 == [W EXCEPT !.listeners = @ - 1]
    IN  IF W1.slots.readyState # CLOSED THEN createConnection(W1) ELSE W1

RECURSIVE fireListeners(_, _)
fireListeners(W, n) ==
    IF n = 0 THEN W ELSE fireListeners(listener(W), n - 1)

GoOnline ==
    /\ Idle
    /\ onLine = FALSE
    /\ Apply(fireListeners([World EXCEPT !.onLine = TRUE,
                                         !.note.online = TRUE], listeners))
    /\ UNCHANGED <<Config, closedByUser, created>>

GoOffline ==
    /\ Idle
    /\ onLine = TRUE
    /\ Apply([World EXCEPT !.onLine = FALSE])
    /\ UNCHANGED <<Config, closedByUser, created>>

\* The consumer calls a configuration function, in a turn of its own
Called(setter, value, result) ==
    Apply([World EXCEPT !.note.setter = setter,
                        !.note.arg = value,
                        !.note.threw = result.threw])

SetDefaultReconnectionTime(value) ==
    /\ Idle
    /\ LET result == setDefaultReconnectionTime(value)
       IN  /\ defaultReconnectionTime' = result.value
           /\ Called("setDefaultReconnectionTime", value, result)
    /\ UNCHANGED <<reconnectionTimeIncreasingRate, maxBufferSize,
                   queueIsMicrotask, closedByUser, created>>

SetReconnectionTimeIncreasingRate(value) ==
    /\ Idle
    /\ LET result == setReconnectionTimeIncreasingRate(value)
       IN  /\ reconnectionTimeIncreasingRate' = result.value
           /\ Called("setReconnectionTimeIncreasingRate", value, result)
    /\ UNCHANGED <<defaultReconnectionTime, maxBufferSize, queueIsMicrotask,
                   closedByUser, created>>

SetMaxBufferSize(value) ==
    /\ Idle
    /\ LET result == setMaxBufferSize(value)
       IN  /\ maxBufferSize' = result.value
           /\ Called("setMaxBufferSize", value, result)
    /\ UNCHANGED <<defaultReconnectionTime, reconnectionTimeIncreasingRate,
                   queueIsMicrotask, closedByUser, created>>

Init ==
    /\ defaultReconnectionTime = Num(4000)
    /\ reconnectionTimeIncreasingRate = Rat(3, 2)
    /\ maxBufferSize = Num(64 * 1024)
    /\ slots = NoSlots
    /\ reqs = <<>>
    /\ queue = <<>>
    /\ timers = <<>>
    /\ listeners = 0
    /\ onLine = TRUE
    /\ queueIsMicrotask \in BOOLEAN
    /\ note = NoNote
    /\ sched = <<>>
    /\ closedByUser = FALSE
    /\ created = [reconnectionTime |-> Num(0), rate |-> Num(0)]

Next ==
    \/ New
    \/ Close
    \/ RunTask
    \/ \E r \in 1..MaxRequests, chunk \in Chunks, status \in HttpStatuses,
          contentType \in ContentTypes :
          Progress(r, chunk, status, contentType)
    \/ \E r \in 1..MaxRequests, status \in HttpStatuses : Load(r, status)
    \/ \E r \in 1..MaxRequests : NetworkError(r)
    \/ \E r \in 1..MaxRequests : StaleProgress(r)
    \/ \E r \in 1..MaxRequests : StaleLoad(r)
    \/ \E r \in 1..MaxRequests : StaleError(r)
    \/ \E i \in 1..MaxRequests : TimerFires(i)
    \/ GoOnline
    \/ GoOffline
    \/ \E value \in BufferSizes : SetMaxBufferSize(value)

\* One connection under the default reconnection time and increasing rate
Spec == Init /\ [][Next]_vars

\* The platform has queueMicrotask
InitMicrotask == Init /\ queueIsMicrotask

\* One valid response received line by line
NextBlocks ==
    \/ New
    \/ RunTask
    \/ \E r \in 1..MaxRequests, line \in BlockLines : ProgressLine(r, line)

SpecBlocks == InitMicrotask /\ [][NextBlocks]_vars

\* Valid responses received line by line, ended by the server and resumed
\* by reconnection, or restarted by the buffer guard
NextIds ==
    \/ New
    \/ RunTask
    \/ \E r \in 1..MaxRequests, line \in IdLines : ProgressLine(r, line)
    \/ \E r \in 1..MaxRequests : Load(r, 200)
    \/ \E i \in 1..MaxRequests : TimerFires(i)
    \/ \E value \in BufferSizes : SetMaxBufferSize(value)

SpecIds == InitMicrotask /\ [][NextIds]_vars

\* Responses of one or two blocks a chunk, ended by the server and resumed
\* by reconnection, on either kind of platform
NextOrder ==
    \/ New
    \/ RunTask
    \/ \E r \in 1..MaxRequests, chunk \in OrderChunks,
          contentType \in {ContentTypeSSE, NoContentType} :
          Progress(r, chunk, 200, contentType)
    \/ \E r \in 1..MaxRequests : Load(r, 200)
    \/ \E i \in 1..MaxRequests : TimerFires(i)

SpecOrder == Init /\ [][NextOrder]_vars

\* Requests that fail at the network level and are retried, with the
\* configuration functions called at any moment with any argument
NextRates ==
    \/ New
    \/ RunTask
    \/ \E r \in 1..MaxRequests : NetworkError(r)
    \/ \E i \in 1..MaxRequests : TimerFires(i)
    \/ \E value \in ReconnectionTimeInputs : SetDefaultReconnectionTime(value)
    \/ \E value \in IncreasingRateInputs :
          SetReconnectionTimeIncreasingRate(value)
    \/ \E value \in MaxBufferSizeInputs : SetMaxBufferSize(value)

SpecRates == Init /\ [][NextRates]_vars

\* One valid response received line by line, with lines of every form
NextFields ==
    \/ New
    \/ RunTask
    \/ \E r \in 1..MaxRequests, line \in FieldLines : ProgressField(r, line)

SpecFields == InitMicrotask /\ [][NextFields]_vars

\* One valid response received line by line, the lines ending in CR, LF or
\* CRLF, and the chunks ending after a line's end or within it
NextEndings ==
    \/ New
    \/ RunTask
    \/ \E r \in 1..MaxRequests, line \in EndedLines, end \in Endings,
          cut \in BOOLEAN : ProgressEnded(r, line, end, cut)
    \/ \E r \in 1..MaxRequests : ProgressRest(r)

SpecEndings == InitMicrotask /\ [][NextEndings]_vars

\* ------------------------------------------------------------------------
\* Properties
\* ------------------------------------------------------------------------
Pending(kind) == \E i \in 1..Len(queue) : queue[i].kind = kind

\* C1: once the consumer has called close(), no step delivers an open,
\* message or error event any more, whatever was queued before the call.
C1_NoDeliveryAfterClose ==
    [][closedByUser => note'.kind = "none"]_vars

\* The consumer has closed the connection (from a handler or in a turn of
\* its own) while a parsed message is still queued for dispatch.
C1_Witness == closedByUser /\ Pending("message")

\* C2: a step that starts or ends with readyState CLOSED creates no request.
C2_NoRequestOnceClosed ==
    [][(slots.readyState = CLOSED \/ slots'.readyState = CLOSED)
          => Len(reqs') = Len(reqs)]_vars

\* The connection is CLOSED when the function queued by a reconnection timer
\* is about to run, or while an "online" listener is still registered.
C2_Witness ==
    /\ slots.readyState = CLOSED
    /\ \/ queue # <<>> /\ Head(queue).kind = "reconnect"
       \/ listeners > 0

\* C3: readyState never leaves CLOSED, and the only changes of readyState
\* are CONNECTING->OPEN, OPEN->CONNECTING, CONNECTING->CLOSED, OPEN->CLOSED.
C3_ReadyStateMonotonic ==
    [][/\ slots.readyState = CLOSED => slots'.readyState = CLOSED
       /\ (slots.readyState \in ReadyState
              /\ slots'.readyState # slots.readyState)
             => <<slots.readyState, slots'.readyState>> \in
                    {<<CONNECTING, OPEN>>, <<OPEN, CONNECTING>>,
                     <<CONNECTING, CLOSED>>, <<OPEN, CLOSED>>}]_vars

\* The connection is CLOSED while a function that would set readyState
\* (announce or reestablish) is still queued.
C3_Witness ==
    /\ slots.readyState = CLOSED
    /\ Pending("announce") \/ Pending("reestablish")

\* The oldest queued function is of the given kind and runs in this step
RunsTask(kind) ==
    /\ queue # <<>>
    /\ Head(queue).kind = kind
    /\ queue' = Tail(queue)

\* C4: when a step in which the consumer called close() is over, readyState
\* is CLOSED, no request is in flight and none was started; and a close()
\* called in a turn of its own on a connection that is already CLOSED changes
\* nothing of the connection (no request ends, nothing is queued or removed).
C4_CloseSynchronousIdempotent ==
    [][note'.close =>
          /\ slots'.readyState = CLOSED
          /\ slots'.request = 0
          /\ \A r \in 1..Len(reqs') : reqs'[r].phase # "inflight"
          /\ Len(reqs') = Len(reqs)
          /\ (note'.kind = "none" /\ slots.readyState = CLOSED)
                => UNCHANGED <<slots, reqs, queue, timers, listeners,
                               sched>>]_vars

\* The consumer has just called close() on a connection that was already
\* CLOSED, after an earlier close() had aborted a request in flight.
C4_Witness ==
    /\ note.close
    /\ note.kind = "none"
    /\ note.readyState = CLOSED
    /\ \E r \in 1..Len(reqs) : reqs[r].phase = "cancelled"

\* No function queued on behalf of request r is waiting to run
Settled(r) == \A i \in 1..Len(queue) : queue[i].req # r

\* C5: of a request whose first chunk was judged invalid nothing is parsed,
\* no open event and at most one error event is dispatched, and that event
\* is observed with readyState CLOSED; no request is started after it; and
\* once its queued functions have run, readyState is CLOSED.
C5_InvalidFirstChunkFatal ==
    \A r \in 1..Len(reqs) :
        reqs[r].valid = "no" =>
            /\ reqs[r].state = ParsingState
            /\ \A i \in 1..Len(queue) :
                  queue[i].req = r => queue[i].kind # "message"
            /\ Len(reqs) = r
            /\ reqs[r].opens = 0
            /\ reqs[r].errs <= 1
            /\ (note.kind = "error" /\ note.req = r)
                  => note.readyState = CLOSED
            /\ Settled(r) => slots.readyState = CLOSED

\* The response of r ends with status 204 before any chunk of it was processed
Ended204First(rs, r) ==
    /\ rs[r].phase = "done"
    /\ rs[r].status = 204
    /\ rs[r].first

\* C6: a step in which a request ends with 204 before any of its chunks was
\* processed queues one fail function and sets no timer and starts no
\* request; the fail function, run while the connection is not CLOSED, sets
\* readyState CLOSED and dispatches one error event observed with CLOSED,
\* leaving no request in flight; and after such an end no request is started
\* and no retry scheduled, and once the queued functions of the request have
\* run, readyState is CLOSED.
C6_Fatal204 ==
    [][/\ \A r \in 1..Len(reqs) :
             (reqs[r].phase = "inflight" /\ Ended204First(reqs', r)) =>
                 /\ queue' = Append(queue, Task("fail", NoEvent, r))
                 /\ timers' = timers
                 /\ Len(reqs') = Len(reqs)
                 /\ slots'.request = 0
       /\ (RunsTask("fail") /\ slots.readyState # CLOSED) =>
             /\ slots'.readyState = CLOSED
             /\ note'.kind = "error"
             /\ note'.readyState = CLOSED
             /\ note'.req = Head(queue).req
             /\ reqs'[note'.req].errs = reqs[note'.req].errs + 1
             /\ timers' = timers
             /\ Len(reqs') = Len(reqs)
             /\ \A r \in 1..Len(reqs') : reqs'[r].phase # "inflight"
       /\ \A r \in 1..Len(reqs') :
             Ended204First(reqs', r) =>
                 /\ Len(reqs') = r
                 /\ reqs'[r].retries = 0
                 /\ reqs'[r].errs <= 1
                 /\ (\A i \in 1..Len(queue') : queue'[i].req # r)
                       => slots'.readyState = CLOSED]_vars

\* A request has ended with 204 as the very first response, and the error
\* event of the failure has been dispatched.
C6_Witness ==
    \E r \in 1..Len(reqs) :
        /\ Ended204First(reqs, r)
        /\ reqs[r].errs = 1
        /\ slots.readyState = CLOSED

\* C7: after a response has ended with a status other than 200 (and the
\* request did not fail at the network level), no retry is scheduled for it,
\* at most one error event is dispatched for it, and once its queued
\* functions have run, readyState is CLOSED.
C7_NonOkEndFatal ==
    \A r \in 1..Len(reqs) :
        (reqs[r].phase = "done" /\ reqs[r].status \notin {0, 200}) =>
            /\ reqs[r].retries = 0
            /\ reqs[r].errs <= 1
            /\ Settled(r) => slots.readyState = CLOSED

\* In this step the request r, in flight on a connection that is not CLOSED,
\* ends with status 200 or fails at the network level
LossOf(r) ==
    /\ slots.readyState # CLOSED
    /\ reqs[r].phase = "inflight"
    /\ reqs'[r].phase = "done"
    /\ reqs'[r].status \in {0, 200}

\* What a recoverable loss queues and schedules, and what the queued error
\* function does: one reestablish function and one timer with the delay
\* reconnectionTime + additionalReconnectionTime, no request yet; the
\* function, run while the connection is not CLOSED, sets readyState
\* CONNECTING and dispatches one error event observed with CONNECTING.
LossHandling ==
    /\ \A r \in 1..Len(reqs) :
          LossOf(r) =>
              /\ queue' = Append(queue, Task("reestablish", NoEvent, r))
              /\ timers' =
                     Append(timers,
                            [delay |-> RAdd(slots.reconnectionTime,
                                            slots.additionalReconnectionTime),
                             req |-> r])
              /\ Len(reqs') = Len(reqs)
              /\ slots'.readyState = slots.readyState
    /\ (RunsTask("reestablish") /\ slots.readyState # CLOSED) =>
          /\ note'.kind = "error"
          /\ note'.readyState = CONNECTING
          /\ note'.req = Head(queue).req
          /\ reqs'[note'.req].errs = reqs[note'.req].errs + 1
          /\ slots'.readyState = (IF note'.close THEN CLOSED ELSE CONNECTING)
          /\ Len(reqs') = Len(reqs)
          /\ timers' = timers
    /\ (RunsTask("reconnect") /\ slots.readyState # CONNECTING) =>
          /\ Len(reqs') = Len(reqs)
          /\ listeners' = listeners

\* In this step a request is started, and is the one of the connection
StartsRequest ==
    /\ Len(reqs') = Len(reqs) + 1
    /\ reqs'[Len(reqs')].phase = "inflight"
    /\ slots'.request = Len(reqs')

\* C8 as stated: a recoverable loss is handled as above, and the function
\* queued by the timer, run while readyState is CONNECTING, starts a request.
C8_LossReconnects ==
    [][/\ LossHandling
       /\ (RunsTask("reconnect") /\ slots.readyState = CONNECTING)
             => StartsRequest]_vars

\* C8, amended: a recoverable loss is handled as above, and the function
\* queued by the timer, run while readyState is CONNECTING, starts a request
\* if the network is available; if it is not, it starts none and registers
\* for the "online" notification, at which the request is started if the
\* connection is not CLOSED then.
C8_LossReconnectsWhenOnline ==
    [][/\ LossHandling
       /\ (RunsTask("reconnect") /\ slots.readyState = CONNECTING) =>
             IF onLine
             THEN StartsRequest
             ELSE /\ Len(reqs') = Len(reqs)
                  /\ listeners' = listeners + 1
                  /\ slots' = slots
       /\ (~onLine /\ onLine' /\ listeners > 0) =>
             /\ listeners' = 0
             /\ IF slots.readyState # CLOSED
                THEN Len(reqs') = Len(reqs) + listeners
                ELSE Len(reqs') = Len(reqs)]_vars

\* After a loss whose error event has been dispatched, its timer has fired
\* and the queued function has run while the network was down: no request
\* was started, and the connection waits for the "online" notification.
C8_Witness ==
    \E r \in 1..Len(reqs) :
        /\ reqs[r].phase = "done"
        /\ reqs[r].status \in {0, 200}
        /\ reqs[r].retries = 1
        /\ reqs[r].errs = 1
        /\ Len(reqs) = r
        /\ slots.readyState = CONNECTING
        /\ ~onLine
        /\ listeners = 1
        /\ timers = <<>>
        /\ queue = <<>>

\* C9: of the delays scheduled since the last successful open (or since the
\* construction), the k-th is B * R^(k-1), as long as the reconnection time
\* B and the increasing rate R were the same at all k losses.
C9_DelaysGrowGeometrically ==
    \A k \in 1..Len(sched) :
        (\A j \in 1..k : /\ sched[j].base = sched[1].base
                         /\ sched[j].rate = sched[1].rate)
            => sched[k].delay = RMul(sched[1].base, RPow(sched[1].rate, k - 1))

\* Three losses in a row without a successful open, under one reconnection
\* time and one rate: the third delay is not the second.
C9_Witness ==
    /\ Len(sched) >= 3
    /\ sched[3].base = sched[1].base
    /\ sched[2].base = sched[1].base
    /\ sched[3].delay # sched[2].delay

\* The first chunk of request r is judged valid in this step
Validated(r) == reqs[r].valid # "yes" /\ reqs'[r].valid = "yes"

\* C10: a step that validates the first chunk of a request leaves the
\* additional reconnection time 0; no other step of a constructed connection
\* makes it 0; and the first delay scheduled after a successful open (or
\* after the construction) is the reconnection time itself.
C10_ResetOnOpenOnly ==
    [][/\ \A r \in 1..Len(reqs) :
             Validated(r) => /\ slots'.additionalReconnectionTime = Num(0)
                             /\ sched' = <<>>
       /\ (/\ Created
           /\ slots.additionalReconnectionTime # Num(0)
           /\ slots'.additionalReconnectionTime = Num(0))
             => \E r \in 1..Len(reqs) : Validated(r)
       /\ (Len(sched) = 0 /\ Len(sched') = 1)
             => sched'[1].delay = slots.reconnectionTime]_vars

\* A loss after a successful open that itself followed a loss: the delay
\* scheduled is the reconnection time again.
C10_Witness ==
    \E r \in 2..Len(reqs) :
        /\ reqs[r - 1].retries = 1
        /\ reqs[r].valid = "yes"
        /\ reqs[r].retries = 1
        /\ Len(sched) = 1
        /\ sched[1].delay = slots.reconnectionTime

\* The buffer guard aborts request r in this step
Restarted(r) == reqs[r].phase = "inflight" /\ reqs'[r].phase = "aborted"

\* What a restart by the buffer guard leaves alone: no timer is set, no event
\* is dispatched, nothing but the open and message functions of the chunk is
\* queued, readyState keeps its value, and the additional reconnection time
\* keeps its value (0 if this very chunk was the valid first one).
RestartIsSilent(r) ==
    /\ timers' = timers
    /\ note'.kind = "none"
    /\ Len(queue') >= Len(queue)
    /\ SubSeq(queue', 1, Len(queue)) = queue
    /\ \A i \in (Len(queue) + 1)..Len(queue') :
          queue'[i].kind \in {"announce", "message"}
    /\ slots'.readyState = slots.readyState
    /\ slots'.additionalReconnectionTime =
           (IF Validated(r) THEN Num(0)
            ELSE slots.additionalReconnectionTime)

\* C11 as stated: a restart by the buffer guard is silent and starts the new
\* request in the same step.
C11_RestartSilentImmediate ==
    [][\A r \in 1..Len(reqs) :
          Restarted(r) => (RestartIsSilent(r) /\ StartsRequest)]_vars

\* C11, amended: a restart by the buffer guard is silent; it starts the new
\* request in the same step if the network is available, and otherwise
\* starts none and registers for the "online" notification.
C11_RestartSilentWhenOnline ==
    [][\A r \in 1..Len(reqs) :
          Restarted(r) =>
              /\ RestartIsSilent(r)
              /\ IF onLine
                 THEN StartsRequest
                 ELSE /\ Len(reqs') = Len(reqs)
                      /\ listeners' = listeners + 1
                      /\ slots'.request = 0]_vars

\* The buffer guard has just aborted a request of an OPEN connection while
\* the network was down: no request is in flight and an "online" listener
\* is registered.
C11_Witness ==
    \E r \in 1..Len(reqs) :
        /\ reqs[r].phase = "aborted"
        /\ Len(reqs) = r
        /\ slots.readyState = OPEN
        /\ slots.request = 0
        /\ listeners = 1
        /\ ~onLine
        /\ note.progress = r

\* C12: when a chunk of request r arrives and the callback gets as far as
\* the buffer test (the connection is not CLOSED and the chunk is not an
\* invalid first one), the request is aborted if and only if the length
\* received so far is greater than maxBufferSize as it is in that step.
C12_AbortIffLonger ==
    [][\A r \in 1..Len(reqs) :
          (/\ note'.progress = r
           /\ slots.readyState # CLOSED
           /\ ~(reqs[r].first /\ reqs'[r].valid = "no"))
             => (reqs'[r].phase = "aborted"
                    <=> RGt(Num(note'.received), maxBufferSize))]_vars

\* A request that had received 8 characters without being aborted is
\* aborted at 16, the maximum having been set to 6 in between.
C12_Witness ==
    \E r \in 1..Len(reqs) :
        /\ note.progress = r
        /\ note.received = 16
        /\ reqs[r].valid = "yes"
        /\ reqs[r].phase = "aborted"
        /\ maxBufferSize = Num(6)

\* C13: every request created in a step carries the header Last-Event-ID
\* with the connection's last event id as it is when the request is created
\* (nothing changes the id after the creation within a step) if that id is
\* not empty, and carries no such header if it is empty.
C13_LastEventIdHeader ==
    [][\A r \in (Len(reqs) + 1)..Len(reqs') :
          reqs'[r].lastEventIdHeader =
              (IF slots'.lastEventId = <<>> THEN Null
               ELSE Some(slots'.lastEventId))]_vars

\* The first request carried no header; an id was committed on it, it was
\* lost or restarted, and the request that followed carries the id.
C13_Witness ==
    /\ Len(reqs) >= 2
    /\ reqs[1].lastEventIdHeader = Null
    /\ reqs[1].class \in {"loss", "restart"}
    /\ reqs[2].lastEventIdHeader = Some(<<"1">>)
    /\ reqs[2].phase = "inflight"

\* ------------------------------------------------------------------------
\* Blocks of lines and what they should yield
\* ------------------------------------------------------------------------
\* In this step the line arrives as a chunk of the response of r
Fed(r, line) == note'.progress = r /\ note'.fed = <<line>>

\* The events of the message functions queued in this step
Emitted ==
    LET new == SubSeq(queue', Len(queue) + 1, Len(queue'))
        msgs == SelectSeq(new, LAMBDA t : t.kind = "message")
    IN  [i \in 1..Len(msgs) |-> msgs[i].event]

HasNul(value) == \E i \in 1..Len(value) : value[i] = "NUL"

\* The values of the fields of the given name in a block, in order
FieldValues(block, name) ==
    LET fields == SelectSeq(block, LAMBDA l : l.name = name)
    IN  [i \in 1..Len(fields) |-> fields[i].value]

\* The values of the id fields of a block that have no NUL character
ValidIds(block) ==
    SelectSeq(FieldValues(block, FieldId), LAMBDA v : ~HasNul(v))

Last(seq) == seq[Len(seq)]

\* The values joined by single LFs
RECURSIVE JoinLF(_)
JoinLF(values) ==
    IF Len(values) = 1 THEN values[1]
    ELSE values[1] \o <<"LF">> \o JoinLF(Tail(values))

\* C14: when the blank line ends a block that has an id field (without NUL)
\* and no data field, the last event id of the connection becomes the value
\* of the last such id field, and no message function is queued.
C14_IdWithoutData ==
    [][\A r \in 1..Len(reqs) :
          (/\ Fed(r, LineBlank)
           /\ ValidIds(reqs[r].block) # <<>>
           /\ FieldValues(reqs[r].block, FieldData) = <<>>)
             => /\ slots'.lastEventId = Last(ValidIds(reqs[r].block))
                /\ Emitted = <<>>]_vars

\* The response "id:1", "" has been received: the id is committed, nothing
\* is queued but the open function.
C14_Witness ==
    \E r \in 1..Len(reqs) :
        /\ note.progress = r
        /\ reqs[r].responseText = RenderAll(<<LineId, LineBlank>>)
        /\ slots.lastEventId = <<"1">>
        /\ ~Pending("message")

\* C15: the arrival of an id field with a NUL character changes neither the
\* last event id of the connection nor the pending id of the response, and
\* queues nothing; and neither the last event id of the connection nor that
\* of a queued event ever has a NUL character.
C15_NulIdIgnored ==
    [][/\ \A r \in 1..Len(reqs) :
             Fed(r, LineIdNul) =>
                 /\ slots'.lastEventId = slots.lastEventId
                 /\ reqs'[r].phase = "inflight"
                       => reqs'[r].state.lastEventId = reqs[r].state.lastEventId
                 /\ Emitted = <<>>
       /\ ~HasNul(slots'.lastEventId)
       /\ \A i \in 1..Len(queue') : ~HasNul(queue'[i].event.lastEventId)]_vars

\* The block "id:1", "id:2<NUL>", "data:x" has been ended by a blank line:
\* the event carries the id 1.
C15_Witness ==
    \E r \in 1..Len(reqs) :
        /\ note.progress = r
        /\ reqs[r].responseText =
               RenderAll(<<LineId, LineIdNul, LineData, LineBlank>>)
        /\ \E i \in 1..Len(queue) : /\ queue[i].kind = "message"
                                    /\ queue[i].event.lastEventId = <<"1">>

\* C16: when the blank line ends a block whose last id field (without NUL)
\* has an empty value, the last event id of the connection becomes empty and
\* the event of the block carries the empty id; while the last event id is
\* empty, a block without such an id field leaves it empty and its event
\* carries the empty id; and a request created while it is empty carries no
\* Last-Event-ID header.
C16_EmptyIdClears ==
    [][/\ \A r \in 1..Len(reqs) :
             (/\ Fed(r, LineBlank)
              /\ \/ /\ ValidIds(reqs[r].block) # <<>>
                    /\ Last(ValidIds(reqs[r].block)) = <<>>
                 \/ /\ ValidIds(reqs[r].block) = <<>>
                    /\ slots.lastEventId = <<>>)
                => /\ slots'.lastEventId = <<>>
                   /\ \A i \in 1..Len(Emitted) :
                         Emitted[i].lastEventId = <<>>
       /\ \A r \in (Len(reqs) + 1)..Len(reqs') :
             slots'.lastEventId = <<>> => reqs'[r].lastEventIdHeader = Null]_vars

\* The second request carried the id 1 and was opened; the last event id
\* of the connection was cleared on it; and the third request carries no
\* header.
C16_Witness ==
    /\ Len(reqs) = 3
    /\ reqs[2].lastEventIdHeader = Some(<<"1">>)
    /\ reqs[2].opens = 1
    /\ reqs[3].lastEventIdHeader = Null
    /\ slots.lastEventId = <<>>

\* C17: when the blank line ends a block, the last event id of the
\* connection becomes the value of the last id field (without NUL) of the
\* block, wherever it stands in the block, and keeps its value if the block
\* has none; the event of the block carries that id; and no other step, a
\* reconnection and a restart by the buffer guard included, changes the
\* last event id of the connection.
C17_LastEventIdSticky ==
    [][/\ \A r \in 1..Len(reqs) :
             Fed(r, LineBlank) =>
                 /\ slots'.lastEventId =
                        (IF ValidIds(reqs[r].block) # <<>>
                         THEN Last(ValidIds(reqs[r].block))
                         ELSE slots.lastEventId)
                 /\ \A i \in 1..Len(Emitted) :
                       Emitted[i].lastEventId = slots'.lastEventId
       /\ (\A r \in 1..Len(reqs) : ~Fed(r, LineBlank))
             => slots'.lastEventId = slots.lastEventId]_vars

\* The id 1 was committed on an earlier request; after a reconnection or a
\* restart, the block "data:x" of a later request has been ended and its
\* event carries the id 1.
C17_Witness ==
    \E r \in 2..Len(reqs) :
        /\ note.progress = r
        /\ reqs[r].responseText = RenderAll(<<LineData, LineBlank>>)
        /\ \E i \in 1..Len(queue) : /\ queue[i].kind = "message"
                                    /\ queue[i].event.lastEventId = <<"1">>

MessageType == <<"m", "e", "s", "s", "a", "g", "e">>

\* The type of the event of a block: the value of its last event field, or
\* "message" if it has none or that value is empty
TypeOf(block) ==
    LET types == FieldValues(block, FieldEvent)
    IN  IF types # <<>> /\ Last(types) # <<>> THEN Last(types)
        ELSE MessageType

\* C18: when the blank line ends a block with at least one data field, one
\* message function is queued, and the data of its event are the values of
\* the data fields of the block in order, joined by single LFs.
C18_DataJoinedByLF ==
    [][\A r \in 1..Len(reqs) :
          (/\ Fed(r, LineBlank)
           /\ FieldValues(reqs[r].block, FieldData) # <<>>)
             => /\ Len(Emitted) = 1
                /\ Emitted[1].data =
                       JoinLF(FieldValues(reqs[r].block, FieldData))]_vars

\* The block "data:x", "data: y", "data" has been ended: the data of its
\* event are x, LF, y, LF.
C18_Witness ==
    \E i \in 1..Len(queue) :
        /\ queue[i].kind = "message"
        /\ queue[i].event.data = <<"x", "LF", "y", "LF">>

\* C19: a blank line queues one message function if the block it ends has a
\* data field and none if it has not; the event of a block whose only data
\* field has an empty value has empty data; and a line that is not blank
\* queues no message function.
C19_EventIffData ==
    [][\A r \in 1..Len(reqs) :
          /\ Fed(r, LineBlank) =>
                /\ Len(Emitted) =
                       (IF FieldValues(reqs[r].block, FieldData) # <<>>
                        THEN 1 ELSE 0)
                /\ FieldValues(reqs[r].block, FieldData) = <<<<>>>>
                      => Emitted[1].data = <<>>
          /\ \A line \in BlockLines \ {LineBlank} :
                Fed(r, line) => Emitted = <<>>]_vars

\* The block "data" has been ended (an event with empty data is queued)
\* after the block "event:h" had been ended with nothing queued.
C19_Witness ==
    \E r \in 1..Len(reqs) :
        /\ note.progress = r
        /\ reqs[r].responseText =
               RenderAll(<<LineEvent, LineBlank, LineDataBare, LineBlank>>)
        /\ \E i \in 1..Len(queue) : /\ queue[i].kind = "message"
                                    /\ queue[i].event.data = <<>>

\* C20: when the blank line ends a block, the pending type is cleared, and
\* the event of the block, if there is one, has the type of the last event
\* field of that block, or "message" if the block has no event field or the
\* value of the last one is empty.
C20_TypeOfOwnBlock ==
    [][\A r \in 1..Len(reqs) :
          Fed(r, LineBlank) =>
              /\ reqs'[r].state.type = <<>>
              /\ \A i \in 1..Len(Emitted) :
                    Emitted[i].type = TypeOf(reqs[r].block)]_vars

\* "event:h", "", "data:x", "" has been received: the event of the second
\* block has the type "message".
C20_Witness ==
    \E r \in 1..Len(reqs) :
        /\ note.progress = r
        /\ reqs[r].responseText =
               RenderAll(<<LineEvent, LineBlank, LineData, LineBlank>>)
        /\ \E i \in 1..Len(queue) : /\ queue[i].kind = "message"
                                    /\ queue[i].event.type = MessageType

\* The events the lines would yield as one response with every line ended
\* by LF
LFEvents(r, lines) ==
    LET W0 == [World EXCEPT
                   !.reqs[r].state = [ParsingState EXCEPT !.origin = Origin],
                   !.queue = <<>>]
        q == parseStream(W0, r, RenderAll(lines)).queue
    IN  [i \in 1..Len(q) |-> q[i].event]

\* C21: whichever of CR, LF and CRLF ends each line of a response, the
\* arrival of a line queues the events the block it belongs to would yield
\* had all its lines ended in LF, and the arrival of the LF of a CRLF, which
\* is part of the end of a line that has arrived, queues nothing.
C21_TerminatorsEquivalent ==
    [][\A r \in 1..Len(reqs) :
          note'.progress = r =>
              Emitted = (IF note'.fed = <<>> THEN <<>>
                         ELSE LFEvents(r, reqs[r].block \o note'.fed))]_vars

\* The ways a field name is written in the lines of the responses
DataNames == {FieldData, <<"D", "A", "T", "A">>}
EventNames == {FieldEvent, <<"E", "v", "e", "n", "t">>}
RetryNames == {FieldRetry}

\* C23: the arrival of a line that is not blank queues no message and no
\* failure, ends no request and leaves the last event id of the connection
\* alone; with the name of the line being what stands before its first
\* colon (the whole line if it has none, nothing if it starts with one) and
\* its value what stands after the colon and one space, if there is one
\* (nothing if it has no colon), the pending data get the value and an LF
\* appended if the name is "data" in any case of letters and keep their
\* value otherwise; the pending type becomes the value if the name is
\* "event" in any case of letters and keeps its value otherwise; the
\* pending id changes only for the name "id"; and the reconnection time
\* changes only for the name "retry".
C23_LineClassification ==
    [][\A r \in 1..Len(reqs) : \A line \in FieldLines \ {LineBlank} :
          Fed(r, line) =>
              /\ Emitted = <<>>
              /\ \A i \in (Len(queue) + 1)..Len(queue') :
                    queue'[i].kind = "announce"
              /\ reqs'[r].phase = "inflight"
              /\ slots'.lastEventId = slots.lastEventId
              /\ reqs'[r].state.data =
                     (IF line.name \in DataNames
                      THEN reqs[r].state.data \o line.value \o <<"LF">>
                      ELSE reqs[r].state.data)
              /\ reqs'[r].state.type =
                     (IF line.name \in EventNames THEN line.value
                      ELSE reqs[r].state.type)
              /\ line.name # FieldId
                    => reqs'[r].state.lastEventId = reqs[r].state.lastEventId
              /\ line.name \notin RetryNames
                    => slots'.reconnectionTime = slots.reconnectionTime]_vars

\* The block "DATA:x", "data:  y" has been ended: the data of its event are
\* x, LF, a space and y.
C23_Witness ==
    \E r \in 1..Len(reqs) :
        /\ note.progress = r
        /\ reqs[r].responseText =
               RenderAll(<<LineDataUpper, LineDataSpaces, LineBlank>>)
        /\ \E i \in 1..Len(queue) :
              /\ queue[i].kind = "message"
              /\ queue[i].event.data = <<"x", "LF", " ", "y">>

\* C24: the arrival of a retry field makes the reconnection time of the
\* connection the number its value denotes if the value is one or more
\* digits ("retry:2" gives 2, "retry: 30" gives 30) and leaves it alone if
\* the value is empty or has a character that is no digit; and nothing else
\* that arrives in a response changes the reconnection time.
C24_RetryDigitsOnly ==
    [][\A r \in 1..Len(reqs) :
          /\ Fed(r, LineRetry) => slots'.reconnectionTime = Num(2)
          /\ Fed(r, LineRetrySpace) => slots'.reconnectionTime = Num(30)
          /\ \A line \in FieldLines :
                (/\ Fed(r, line)
                 /\ \/ line.name \notin RetryNames
                    \/ line.value = <<>>
                    \/ \E i \in 1..Len(line.value) : line.value[i] \notin Digit)
                   => slots'.reconnectionTime = slots.reconnectionTime]_vars

\* "retry: 30", "retry:2x", "retry:" has been received: the reconnection
\* time is 30.
C24_Witness ==
    \E r \in 1..Len(reqs) :
        /\ note.progress = r
        /\ reqs[r].responseText =
               RenderAll(<<LineRetrySpace, LineRetryBad, LineRetryEmpty>>)
        /\ slots.reconnectionTime = Num(30)

\* The text has the part somewhere
Contains(text, part) ==
    \E i \in 0..(Len(text) - Len(part)) :
        SubSeq(text, i + 1, i + Len(part)) = part

\* C25: the reconnection time of a connection changes only when a chunk
\* arrives of a response that has a retry field, and then becomes the value
\* of the field; a retry field of a valid response makes it the field's
\* value; no start of a request, loss, restart or queued function changes
\* it; and the delay of every timer set at a loss is the reconnection time
\* as it is then, plus the additional time accumulated since the last
\* successful open.
C25_RetryOutlivesStream ==
    [][/\ (Created /\ slots'.reconnectionTime # slots.reconnectionTime)
             => /\ slots'.reconnectionTime = Num(2)
                /\ \E r \in 1..Len(reqs) :
                      /\ note'.progress = r
                      /\ Contains(reqs[r].responseText \o RenderAll(note'.fed),
                                  Render(LineRetry))
       /\ \A r \in 1..Len(reqs) :
             (/\ note'.progress = r
              /\ note'.fed = ChunkRetry
              /\ slots.readyState # CLOSED
              /\ reqs'[r].valid = "yes")
                => slots'.reconnectionTime = Num(2)
       /\ Len(sched') = Len(sched) + 1
             => /\ Last(sched').base = slots.reconnectionTime
                /\ Last(timers').delay =
                       RAdd(slots.reconnectionTime,
                            slots.additionalReconnectionTime)]_vars

\* The first request received "retry:2" and was lost, and the request that
\* followed was lost before any response: the second delay is 2 * 1.5.
C25_Witness ==
    /\ Len(reqs) >= 2
    /\ reqs[1].valid = "yes"
    /\ reqs[1].retries = 1
    /\ reqs[2].valid = "unknown"
    /\ reqs[2].retries = 1
    /\ Len(sched) = 2
    /\ sched[1].delay = Num(2)
    /\ sched[2].base = Num(2)
    /\ sched[2].delay = Num(3)

\* The event a queued function dispatches if it dispatches one
EventKind(task) ==
    CASE task.kind = "announce" -> "open"
      [] task.kind = "message" -> "message"
      [] task.kind \in {"reestablish", "fail"} -> "error"
      [] OTHER -> "none"

\* C26: a step either leaves the queued functions in place, appends to them
\* and dispatches nothing (so a callback of a request dispatches nothing
\* itself), or runs the oldest queued function, which dispatches nothing or
\* its own event, and queues nothing ahead of the others; and the message
\* functions a chunk queues stand in the order of its blocks.
C26_FifoDeferred ==
    [][/\ \/ /\ Len(queue') >= Len(queue)
             /\ SubSeq(queue', 1, Len(queue)) = queue
             /\ note'.kind = "none"
          \/ /\ queue # <<>>
             /\ queue' = Tail(queue)
             /\ note'.progress = 0
             /\ note'.kind # "none" =>
                   /\ note'.kind = EventKind(Head(queue))
                   /\ note'.event = Head(queue).event
                   /\ note'.req = Head(queue).req
       /\ \A r \in 1..Len(reqs) :
             (/\ note'.progress = r
              /\ note'.fed = ChunkTwo
              /\ slots.readyState # CLOSED
              /\ reqs'[r].valid = "yes")
                => /\ Len(Emitted) = 2
                   /\ Emitted[1].data = <<"x">>
                   /\ Emitted[2].data = <<>>]_vars

\* Of the two events of one chunk the first has just been dispatched, and
\* the second is the next in the queue.
C26_Witness ==
    /\ note.kind = "message"
    /\ note.event.data = <<"x">>
    /\ Len(queue) = 1
    /\ queue[1].kind = "message"
    /\ queue[1].event.data = <<>>
    /\ queue[1].req = note.req

\* The value is not a finite number greater than the limit (0 or 1)
Rejected(value, limit) == value.d = 0 \/ value.n <= limit * value.d

\* C27: a call of a configuration function with an argument that is not
\* finite, or not greater than 0 (not greater than 1 for the increasing
\* rate), throws and leaves the three settings as they are; a call with any
\* other argument does not throw, makes the setting of that function the
\* argument and leaves the other two as they are; and no call changes
\* anything of a connection.
C27_SettersValidate ==
    [][note'.setter # "none" =>
          LET value == note'.arg
              limit == IF note'.setter = "setReconnectionTimeIncreasingRate"
                       THEN 1 ELSE 0
              after == <<defaultReconnectionTime', maxBufferSize',
                         reconnectionTimeIncreasingRate'>>
              want == CASE note'.setter = "setDefaultReconnectionTime" ->
                               <<value, maxBufferSize,
                                 reconnectionTimeIncreasingRate>>
                        [] note'.setter = "setMaxBufferSize" ->
                               <<defaultReconnectionTime, value,
                                 reconnectionTimeIncreasingRate>>
                        [] note'.setter = "setReconnectionTimeIncreasingRate" ->
                               <<defaultReconnectionTime, maxBufferSize, value>>
          IN  /\ note'.threw = Rejected(value, limit)
              /\ IF Rejected(value, limit)
                 THEN UNCHANGED <<defaultReconnectionTime, maxBufferSize,
                                  reconnectionTimeIncreasingRate>>
                 ELSE after = want
              /\ UNCHANGED <<slots, reqs, queue, timers, listeners, sched>>]_vars

\* setReconnectionTimeIncreasingRate(1) has just thrown, after
\* setDefaultReconnectionTime(100) and setReconnectionTimeIncreasingRate(2)
\* had been accepted: the settings are 100, 2 and the initial 64 KiB.
C27_Witness ==
    /\ note.setter = "setReconnectionTimeIncreasingRate"
    /\ note.arg = Num(1)
    /\ note.threw
    /\ defaultReconnectionTime = Num(100)
    /\ reconnectionTimeIncreasingRate = Num(2)
    /\ maxBufferSize = Num(64 * 1024)

\* C28: the construction makes the reconnection time of the connection the
\* default as it is then; a later call of setDefaultReconnectionTime
\* changes nothing of the connection and no timer; the reconnection time of
\* the connection stays what it was at the construction (no retry field
\* arrives here); and the delay of every timer set at a loss is computed
\* from it.
C28_DefaultSnapshotted ==
    [][/\ (~Created /\ slots'.readyState # "NONE")
             => slots'.reconnectionTime = defaultReconnectionTime
       /\ (Created /\ note'.setter = "setDefaultReconnectionTime")
             => UNCHANGED <<slots, reqs, queue, timers, listeners, sched>>
       /\ slots'.readyState # "NONE"
             => slots'.reconnectionTime = created'.reconnectionTime
       /\ Len(sched') = Len(sched) + 1
             => /\ Last(sched').base = created.reconnectionTime
                /\ Last(timers').delay =
                       RAdd(created.reconnectionTime,
                            slots.additionalReconnectionTime)]_vars

\* A connection constructed under the default 4000 has just lost its first
\* request, after the default had been set to 100: the timer's delay is
\* 4000.
C28_Witness ==
    /\ queueIsMicrotask
    /\ created.reconnectionTime = Num(4000)
    /\ defaultReconnectionTime = Num(100)
    /\ Len(queue) = 1
    /\ queue[1].kind = "reestablish"
    /\ Len(timers) = 1
    /\ timers[1].delay = Num(4000)

\* C29 as stated: at every loss the additional reconnection time of a
\* connection is computed with the increasing rate as it was when the
\* connection was constructed.
C29_RateSnapshotted ==
    [][\A r \in 1..Len(reqs) :
          LossOf(r) =>
              slots'.additionalReconnectionTime =
                  RSub(RMul(created.rate,
                            RAdd(slots.reconnectionTime,
                                 slots.additionalReconnectionTime)),
                       slots.reconnectionTime)]_vars

\* C29, amended: at every loss the additional reconnection time of a
\* connection is computed with the increasing rate as it is at that loss,
\* whenever the connection was constructed; a call of
\* setReconnectionTimeIncreasingRate changes nothing of a connection and
\* no timer that is set already.
C29_RateLive ==
    [][/\ \A r \in 1..Len(reqs) :
             LossOf(r) =>
                 slots'.additionalReconnectionTime =
                     RSub(RMul(reconnectionTimeIncreasingRate,
                               RAdd(slots.reconnectionTime,
                                    slots.additionalReconnectionTime)),
                          slots.reconnectionTime)
       /\ note'.setter = "setReconnectionTimeIncreasingRate"
             => UNCHANGED <<slots, reqs, queue, timers, listeners, sched>>]_vars

\* A connection constructed under the rate 1.5 and the reconnection time
\* 4000 was retried after 4000; the rate was then set to 2, and at the
\* second loss the delay was 6000 and the additional time became
\* 2 * 6000 - 4000.
C29_Witness ==
    /\ created.rate = Rat(3, 2)
    /\ created.reconnectionTime = Num(4000)
    /\ Len(sched) = 2
    /\ sched[1].rate = Rat(3, 2)
    /\ sched[2].rate = Num(2)
    /\ sched[2].delay = Num(6000)
    /\ slots.additionalReconnectionTime = Num(8000)

\* C30: the construction leaves readyState CONNECTING; the step that judges
\* the first chunk of a request valid queues one announce function for it
\* and leaves readyState as it is; the announce function, run while the
\* connection is not CLOSED, sets readyState OPEN and dispatches one open
\* event, observed with OPEN; no request has more than one open event, only
\* a request whose first chunk was judged valid has one, and such a request
\* has had its open event once its queued functions have run, unless the
\* connection is CLOSED.
C30_OpenOncePerStream ==
    [][/\ (~Created /\ slots'.readyState # "NONE")
             => slots'.readyState = CONNECTING
       /\ \A r \in 1..Len(reqs) :
             Validated(r) =>
                 /\ slots'.readyState = slots.readyState
                 /\ Len(queue') > Len(queue)
                 /\ queue'[Len(queue) + 1] = Task("announce", NoEvent, r)
                 /\ \A i \in (Len(queue) + 2)..Len(queue') :
                       queue'[i].kind # "announce"
       /\ (RunsTask("announce") /\ slots.readyState # CLOSED) =>
             /\ note'.kind = "open"
             /\ note'.readyState = OPEN
             /\ note'.req = Head(queue).req
             /\ reqs'[note'.req].opens = reqs[note'.req].opens + 1
             /\ slots'.readyState = (IF note'.close THEN CLOSED ELSE OPEN)
       /\ \A r \in 1..Len(reqs') :
             /\ reqs'[r].opens <= 1
             /\ reqs'[r].opens = 1 => reqs'[r].valid = "yes"
             /\ (/\ reqs'[r].valid = "yes"
                 /\ \A i \in 1..Len(queue') : queue'[i].req # r
                 /\ slots'.readyState # CLOSED)
                   => reqs'[r].opens = 1]_vars

\* The open event of the second request has just been dispatched and
\* observed with OPEN, the first request having had its own.
C30_Witness ==
    /\ Len(reqs) >= 2
    /\ reqs[1].opens = 1
    /\ reqs[2].opens = 1
    /\ note.kind = "open"
    /\ note.req = 2
    /\ note.readyState = OPEN
    /\ slots.readyState = OPEN

\* In this step createConnection is called: at the construction, by the
\* function a reconnection timer queued, or at a restart by the buffer guard
AttemptBegins ==
    \/ ~Created /\ slots'.readyState # "NONE"
    \/ RunsTask("reconnect") /\ slots.readyState = CONNECTING
    \/ \E r \in 1..Len(reqs) : Restarted(r)

\* C31: a step that begins and ends with the network unavailable starts no
\* request; a connection attempt that begins while the network is
\* unavailable registers once for the "online" notification and leaves no
\* request in the connection; at most one registration is pending at a
\* time; and the "online" notification removes the registration and starts
\* exactly one request if one was pending and the connection is not CLOSED,
\* and none otherwise.
C31_OfflineDefersRequest ==
    [][/\ (~onLine /\ ~onLine') => Len(reqs') = Len(reqs)
       /\ (~onLine /\ AttemptBegins) =>
             /\ listeners' = listeners + 1
             /\ slots'.request = 0
       /\ listeners' <= 1
       /\ note'.online =>
             /\ listeners' = 0
             /\ IF listeners = 1 /\ slots.readyState # CLOSED
                THEN /\ StartsRequest
                     /\ \A r \in 1..Len(reqs) : reqs[r].phase # "inflight"
                ELSE Len(reqs') = Len(reqs)]_vars

\* The "online" notification has just started the second request of a
\* connection whose first was restarted by the buffer guard while the
\* network was unavailable.
C31_Witness ==
    /\ note.online
    /\ Len(reqs) = 2
    /\ reqs[1].phase = "aborted"
    /\ reqs[2].phase = "inflight"
    /\ slots.request = 2
    /\ listeners = 0
    /\ onLine

Replacement(r) ==
    \/ /\ Len(reqs) = r
       /\ slots.request = 0
       /\ listeners = 1
    \/ /\ Len(reqs) = r + 1
       /\ reqs[r + 1].valid = "unknown"
       /\ \/ /\ reqs[r + 1].phase = "inflight"
             /\ slots.request = r + 1
          \/ /\ reqs[r + 1].phase = "done"
             /\ reqs[r + 1].status \notin {0, 200, 204}
             /\ slots.request = 0

C33_StaleCallbacksNoop ==
    \A r \in 1..Len(reqs) :
        /\ (slots.readyState = CLOSED \/ reqs[r].status = 0) =>
              /\ \A contentType \in ContentTypes :
                    onprogress(World, r, contentType) = World
              /\ onload(World, r) = World
        /\ slots.readyState = CLOSED =>
              /\ onerror(World, r) = World
              /\ onabort(World, r) = World

\* A callback of the request the buffer guard aborted has just arrived and
\* left no trace: the connection is OPEN, the second request is in flight
\* and has had its open event, nothing is queued and no timer is set.
C33_Witness ==
    /\ note = NoNote
    /\ slots.readyState = OPEN
    /\ Len(reqs) = 2
    /\ reqs[1].phase = "aborted"
    /\ reqs[1].status = 0
    /\ reqs[2].phase = "inflight"
    /\ reqs[2].opens = 1
    /\ slots.request = 2
    /\ queue = <<>>
    /\ timers = <<>>
    /\ onLine

\* C34: after every step at most one request is in flight, and it is the
\* request of the connection; the connection has no request but one in
\* flight, and none at all when readyState is CLOSED; and a step starts at
\* most one request, and only when every request started before has ended
\* by its load event, by a network error or by an abort.
C34_OneRequestInFlight ==
    [][/\ Cardinality({r \in 1..Len(reqs') :
                          reqs'[r].phase = "inflight"}) <= 1
       /\ \A r \in 1..Len(reqs') :
             reqs'[r].phase = "inflight" => slots'.request = r
       /\ slots'.request # 0 => reqs'[slots'.request].phase = "inflight"
       /\ slots'.readyState = CLOSED =>
             /\ slots'.request = 0
             /\ \A r \in 1..Len(reqs') : reqs'[r].phase # "inflight"
       /\ Len(reqs') # Len(reqs) =>
             /\ Len(reqs') = Len(reqs) + 1
             /\ \A r \in 1..Len(reqs) :
                   reqs'[r].phase \in {"done", "aborted"}]_vars

\* The third request is in flight, the first having been lost and the
\* second aborted by the buffer guard.
C34_Witness ==
    /\ Len(reqs) = 3
    /\ reqs[1].phase = "done"
    /\ reqs[1].retries = 1
    /\ reqs[2].phase = "aborted"
    /\ reqs[3].phase = "inflight"
    /\ slots.request = 3

\* What parseStream makes of the text as the whole response of r, parsed
\* at once from the state in which the first request of a connection starts
WholeParse(r, text) ==
    parseStream(
        [World EXCEPT
             !.reqs[r].state = [ParsingState EXCEPT !.origin = Origin],
             !.queue = <<>>,
             !.slots.lastEventId = <<>>,
             !.slots.reconnectionTime = created.reconnectionTime],
        r, text)

\* The events of the message functions parseStream queued
EventsOf(W) == [i \in 1..Len(W.queue) |-> W.queue[i].event]

\* C35: when a chunk of the first response of a connection has been parsed,
\* the parsing state of the response, the last event id and the
\* reconnection time of the connection are what parseStream makes of the
\* text received so far parsed at once, and the events queued for the chunk
\* are those of the text received so far parsed at once that follow those
\* of the text received before the chunk.
C35_ChunkingIndependent ==
    [][\A r \in 1..Len(reqs) :
          (/\ note'.progress = r
           /\ r = 1
           /\ reqs'[r].valid = "yes"
           /\ reqs'[r].phase = "inflight")
             => LET before == WholeParse(r, reqs[r].responseText)
                    after == WholeParse(r, reqs'[r].responseText)
                IN  /\ reqs'[r].state = after.reqs[r].state
                    /\ slots'.lastEventId = after.slots.lastEventId
                    /\ slots'.reconnectionTime = after.slots.reconnectionTime
                    /\ EventsOf(after) = EventsOf(before) \o Emitted]_vars

\* Timers fire, queued functions run, and the network becomes available
Fairness ==
    /\ WF_vars(RunTask)
    /\ WF_vars(\E i \in 1..MaxRequests : TimerFires(i))
    /\ WF_vars(GoOnline)

\* One connection, with timers that fire, queued functions that run and a
\* network that comes back
SpecLive == Spec /\ Fairness

\* The request r has ended (by its load event, a network error or an abort
\* of the buffer guard) and the connection is not CLOSED
EndedNotClosed(r) ==
    /\ r \in 1..Len(reqs)
    /\ reqs[r].phase \in {"done", "aborted"}
    /\ slots.readyState # CLOSED

\* C36: whenever a request has ended and the connection is not CLOSED,
\* eventually a request is started after it or readyState is CLOSED (stated
\* of the requests after which the model may start another).
C36_NoStuckState ==
    \A r \in 1..(MaxTaskRequests - 1) :
        [](EndedNotClosed(r) => <>(Len(reqs) > r \/ slots.readyState = CLOSED))

\* C37: a message event is dispatched with readyState OPEN, for a request
\* whose first chunk was judged valid and whose open event has been
\* dispatched, and before any error event of that request; the step that
\* judges the first chunk of a request valid queues the announce function
\* before the message functions of that chunk; and when the error event of
\* a loss is dispatched, no message function of the lost request is queued
\* any more.
C37_MessagesBetweenOpenAndError ==
    [][/\ note'.kind = "message" =>
             /\ note'.readyState = OPEN
             /\ reqs[note'.req].valid = "yes"
             /\ reqs[note'.req].opens = 1
             /\ reqs[note'.req].errs = 0
       /\ \A r \in 1..Len(reqs) :
             Validated(r) =>
                 /\ Len(queue') > Len(queue)
                 /\ queue'[Len(queue) + 1] = Task("announce", NoEvent, r)
                 /\ \A i \in 1..Len(queue) : queue'[i].req # r
       /\ (note'.kind = "error" /\ RunsTask("reestablish")) =>
             \A i \in 1..Len(queue') :
                 ~(queue'[i].kind = "message" /\ queue'[i].req = note'.req)]_vars

\* The event of the only chunk the second request has received, the chunk
\* that was judged valid, has just been dispatched with readyState OPEN,
\* after the open event of that request.
C37_Witness ==
    /\ note.kind = "message"
    /\ note.req = 2
    /\ note.readyState = OPEN
    /\ reqs[2].phase = "inflight"
    /\ reqs[2].responseText = RenderAll(ChunkData)
    /\ reqs[2].opens = 1
    /\ reqs[1].errs = 1

\* C38: every request starts with the initial parsing state and an empty
\* text; a step in which a request ends, unless the line that arrived in it
\* is a blank one, leaves the last event id of the connection as it is,
\* whatever id the lines since the last blank one had, and a request
\* started in that step carries the id committed before; and when a blank
\* line ends a block, the event queued has the data of the data fields
\* that arrived on its own request since the last blank line, and the id of
\* the last id field among them or, if there is none, the id committed
\* before.
C38_ParsingStatePerStream ==
    [][/\ \A r \in (Len(reqs) + 1)..Len(reqs') :
             /\ reqs'[r].state = ParsingState
             /\ reqs'[r].responseText = <<>>
             /\ reqs'[r].first
       /\ \A r \in 1..Len(reqs) :
             (/\ reqs[r].phase = "inflight"
              /\ reqs'[r].phase # "inflight"
              /\ ~Fed(r, LineBlank)) =>
                 /\ slots'.lastEventId = slots.lastEventId
                 /\ \A n \in (Len(reqs) + 1)..Len(reqs') :
                       reqs'[n].lastEventIdHeader =
                           (IF slots.lastEventId = <<>> THEN Null
                            ELSE Some(slots.lastEventId))
       /\ \A r \in 1..Len(reqs) :
             Fed(r, LineBlank) =>
                 /\ Len(Emitted) =
                        (IF FieldValues(reqs[r].block, FieldData) # <<>>
                         THEN 1 ELSE 0)
                 /\ \A i \in 1..Len(Emitted) :
                       /\ Emitted[i].data =
                              JoinLF(FieldValues(reqs[r].block, FieldData))
                       /\ Emitted[i].lastEventId =
                              (IF ValidIds(reqs[r].block) # <<>>
                               THEN Last(ValidIds(reqs[r].block))
                               ELSE slots.lastEventId)]_vars

\* The buffer guard has just aborted the first request, which had received
\* "id:1" and "data:x" and no blank line: the last event id is still empty
\* and the second request carries no Last-Event-ID header.
C38_Witness ==
    /\ note.progress = 1
    /\ note.discarded = [id |-> TRUE, data |-> TRUE]
    /\ Len(reqs) = 2
    /\ reqs[1].phase = "aborted"
    /\ reqs[2].phase = "inflight"
    /\ reqs[2].lastEventIdHeader = Null
    /\ reqs[2].state = ParsingState
    /\ slots.lastEventId = <<>>

\* C39: when the buffer guard aborts a request whose first chunk was judged
\* valid, the chunk that arrived in that step has been parsed: its event is
\* queued ("data:x" and a blank line queue the event x), its id is
\* committed ("id:1" and a blank line make the last event id 1), its retry
\* field is applied, and the request started in that step carries the last
\* event id as it is after the chunk; and a queued message function, run
\* while the connection is not CLOSED, dispatches its event, whether its
\* request is still in flight or not.
C39_OverflowChunkParsed ==
    [][/\ \A r \in 1..Len(reqs) :
             (Restarted(r) /\ reqs'[r].valid = "yes") =>
                 /\ note'.fed = ChunkData =>
                       /\ Len(Emitted) = 1
                       /\ Emitted[1].data = <<"x">>
                       /\ Emitted[1].lastEventId = slots.lastEventId
                 /\ note'.fed = ChunkId =>
                       /\ Emitted = <<>>
                       /\ slots'.lastEventId = <<"1">>
                 /\ note'.fed = ChunkRetry =>
                       slots'.reconnectionTime = Num(2)
                 /\ \A n \in (Len(reqs) + 1)..Len(reqs') :
                       reqs'[n].lastEventIdHeader =
                           (IF slots'.lastEventId = <<>> THEN Null
                            ELSE Some(slots'.lastEventId))
       /\ (RunsTask("message") /\ slots.readyState # CLOSED) =>
             /\ note'.kind = "message"
             /\ note'.event = Head(queue).event
             /\ note'.req = Head(queue).req]_vars

\* The first request, started without a Last-Event-ID header, has just been
\* aborted at 14 characters by the chunk "id:1" and a blank line: the second
\* request carries the id 1.
C39_Witness ==
    /\ note.progress = 1
    /\ note.fed = ChunkId
    /\ note.received = 14
    /\ Len(reqs) = 2
    /\ reqs[1].phase = "aborted"
    /\ reqs[1].lastEventIdHeader = Null
    /\ reqs[2].phase = "inflight"
    /\ reqs[2].lastEventIdHeader = Some(<<"1">>)
    /\ slots.lastEventId = <<"1">>

\* C40: the additional reconnection time is never negative; it is 0 after
\* every step that changes the reconnection time of a connection; and the
\* delay of every timer set at a loss is the reconnection time as it is
\* then, times the increasing rate to the power of the number of losses
\* since the last first chunk that was judged valid (or since the
\* construction), and is not smaller than the reconnection time.
C40_BackoffFromCurrentInterval ==
    [][/\ RLeq(Num(0), slots'.additionalReconnectionTime)
       /\ (Created /\ slots'.reconnectionTime # slots.reconnectionTime)
             => slots'.additionalReconnectionTime = Num(0)
       /\ Len(sched') = Len(sched) + 1 =>
             /\ Last(sched').delay =
                    RMul(slots.reconnectionTime,
                         RPow(reconnectionTimeIncreasingRate, Len(sched)))
             /\ RLeq(slots.reconnectionTime, Last(sched').delay)]_vars

====
